---------------------------- MODULE Spec2Model ----------------------------
(***************************************************************************)
(* Form-submission pipelines of the 7ZeroMedia site: the contact endpoint  *)
(* (JSON body) and the careers endpoint (multipart form with a CV file),   *)
(* both in src/src/app/api/contact/route.ts.                               *)
(*                                                                         *)
(* A JavaScript string is a sequence of one-character strings.  Fixed text *)
(* of a template literal is kept as a single opaque element of such a      *)
(* sequence (it holds no user data), so that the text a user supplied can  *)
(* be told from the text of the template.                                  *)
(***************************************************************************)
EXTENDS Integers, Sequences, FiniteSets, TLC

(* ------------------------------------------------------------------ *)
(* Strings                                                             *)
(* ------------------------------------------------------------------ *)

\* The characters String.prototype.trim removes and the regex class \s matches.
WS == {" ", "\t", "\n", "\r"}

Lower ==
    {"a","b","c","d","e","f","g","h","i","j","k","l","m",
     "n","o","p","q","r","s","t","u","v","w","x","y","z"}

Upper ==
    {"A","B","C","D","E","F","G","H","I","J","K","L","M",
     "N","O","P","Q","R","S","T","U","V","W","X","Y","Z"}

Digit == {"0","1","2","3","4","5","6","7","8","9"}

\* s.slice(0, n) for n >= 0
Slice(s, n) == SubSeq(s, 1, IF n < Len(s) THEN n ELSE Len(s))

\* s.slice(i) counted from 1: the suffix that starts at position i
Suffix(s, i) == SubSeq(s, i, Len(s))

RECURSIVE TrimStart(_)
TrimStart(s) ==
    IF s # <<>> /\ Head(s) \in WS THEN TrimStart(Tail(s)) ELSE s

RECURSIVE TrimEnd(_)
TrimEnd(s) ==
    IF s # <<>> /\ s[Len(s)] \in WS THEN TrimEnd(SubSeq(s, 1, Len(s) - 1)) ELSE s

\* String.prototype.trim
Trim(s) == TrimEnd(TrimStart(s))

\* The position of the first c at or after position i, 0 when there is none.
RECURSIVE IndexFrom(_, _, _)
IndexFrom(s, c, i) ==
    IF i > Len(s) THEN 0
    ELSE IF s[i] = c THEN i
    ELSE IndexFrom(s, c, i + 1)

\* The concatenation of the strings of a sequence of strings.
RECURSIVE Flatten(_)
Flatten(ss) == IF ss = <<>> THEN <<>> ELSE Head(ss) \o Flatten(Tail(ss))

\* A JSON / FormData value: a string, or anything that is not a string
\* (undefined, null, a number, a File), which typeof tells apart.
Str(s) == [isString |-> TRUE, v |-> s]
NotAString == [isString |-> FALSE, v |-> <<>>]

(* ------------------------------------------------------------------ *)
(* Sanitizer                                                           *)
(* ------------------------------------------------------------------ *)

\* A mutant of StripTags: the tag pattern <[^<>]*> instead of <[^>]*>.
RECURSIVE StripTagsInner(_, _)
StripTagsInner(s, i) ==
    IF i > Len(s) THEN <<>>
    ELSE LET close == IndexFrom(s, ">", i + 1)
             open  == IndexFrom(s, "<", i + 1)
         IN  IF s[i] = "<" /\ close # 0 /\ (open = 0 \/ open > close)
             THEN StripTagsInner(s, close + 1)
             ELSE <<s[i]>> \o StripTagsInner(s, i + 1)

StripTagsNoNesting(s) == StripTagsInner(s, 1)

\* .replace(/<[^>]*>/g, ""): scanning from the left, a "<" that has a ">"
\* after it is removed together with everything up to the first such ">";
\* the scan goes on after the match.
RECURSIVE StripTagsFrom(_, _)
StripTagsFrom(s, i) ==
    IF i > Len(s) THEN <<>>
    ELSE LET close == IndexFrom(s, ">", i + 1)
         IN  IF s[i] = "<" /\ close # 0
             THEN StripTagsFrom(s, close + 1)
             ELSE <<s[i]>> \o StripTagsFrom(s, i + 1)

StripTags(s) == StripTagsFrom(s, 1)

\* A mutant of ReplaceNewlines: the pattern /\n/g, which leaves CR alone.
ReplaceLineFeedsOnly(s) ==
    [i \in 1..Len(s) |-> IF s[i] = "\n" THEN " " ELSE s[i]]

\* .replace(/[\r\n]/g, " "): every CR and every LF becomes one space.
ReplaceNewlines(s) ==
    [i \in 1..Len(s) |-> IF s[i] \in {"\r", "\n"} THEN " " ELSE s[i]]

\* sanitize of the contact route
sanitizeContact(val, maxLen) ==
    IF ~val.isString THEN <<>>
    ELSE Slice(Trim(ReplaceNewlines(StripTags(val.v))), maxLen)

\* sanitize of the careers route
sanitizeCareers(val, maxLen) ==
    IF ~val.isString THEN <<>>
    ELSE Slice(Trim(StripTags(val.v)), maxLen)

(* ------------------------------------------------------------------ *)
(* HTML escaping                                                       *)
(* ------------------------------------------------------------------ *)

\* s.replace(/c/g, rep) for a one-character pattern c
ReplaceChar(s, c, rep) ==
    Flatten([i \in 1..Len(s) |-> IF s[i] = c THEN rep ELSE <<s[i]>>])

\* A mutant of escapeHtml: the two angle-bracket replacements are missing.
escapeHtmlNoAngles(s) ==
    ReplaceChar(ReplaceChar(ReplaceChar(s,
        "&",  <<"&","a","m","p",";">>),
        "\"", <<"&","q","u","o","t",";">>),
        "'",  <<"&","#","3","9",";">>)

\* escapeHtml: five replacements in the order of the source, "&" first.
escapeHtml(s) ==
    ReplaceChar(ReplaceChar(ReplaceChar(ReplaceChar(ReplaceChar(s,
        "&",  <<"&","a","m","p",";">>),
        "\"", <<"&","q","u","o","t",";">>),
        "'",  <<"&","#","3","9",";">>),
        "<",  <<"&","l","t",";">>),
        ">",  <<"&","g","t",";">>)

\* encodeURIComponent on the characters of the model: the unreserved
\* characters are kept, every other character becomes its %XX escape.
UriUnreserved == Lower \cup Upper \cup Digit \cup {"-","_",".","!","~","*","'","(",")"}

PercentEscape(c) ==
    CASE c = " "  -> <<"%","2","0">>
      [] c = "\"" -> <<"%","2","2">>
      [] c = "&"  -> <<"%","2","6">>
      [] c = "<"  -> <<"%","3","C">>
      [] c = ">"  -> <<"%","3","E">>
      [] c = "/"  -> <<"%","2","F">>
      [] c = ":"  -> <<"%","3","A">>
      [] c = "@"  -> <<"%","4","0">>
      [] c = "?"  -> <<"%","3","F">>
      [] c = "="  -> <<"%","3","D">>
      [] c = "+"  -> <<"%","2","B">>
      [] c = "\n" -> <<"%","0","A">>
      [] c = "\r" -> <<"%","0","D">>
      [] c = "\t" -> <<"%","0","9">>
      [] OTHER    -> <<"%","X","X">>

encodeURIComponent(s) ==
    Flatten([i \in 1..Len(s) |->
        IF s[i] \in UriUnreserved THEN <<s[i]>> ELSE PercentEscape(s[i])])

(* ------------------------------------------------------------------ *)
(* Validation rules                                                    *)
(* ------------------------------------------------------------------ *)

\* [^\s@]
NotSpaceOrAt(c) == c \notin WS /\ c # "@"

AllNotSpaceOrAt(s) == \A i \in 1..Len(s) : NotSpaceOrAt(s[i])

\* EMAIL_RE.test(s) for EMAIL_RE = /^[^\s@]+@[^\s@]+\.[^\s@]{2,}$/ :
\* a local part, the one "@", a domain part, a ".", and at least two more
\* characters, none of them white space or "@".
EMAIL_RE_test(s) ==
    \E at \in 2..Len(s) : \E dot \in (at + 2)..(Len(s) - 2) :
        /\ s[at] = "@"
        /\ s[dot] = "."
        /\ AllNotSpaceOrAt(SubSeq(s, 1, at - 1))
        /\ AllNotSpaceOrAt(SubSeq(s, at + 1, dot - 1))
        /\ AllNotSpaceOrAt(Suffix(s, dot + 1))

ToLower(c) ==
    CASE c = "H" -> "h" [] c = "T" -> "t" [] c = "P" -> "p" [] c = "S" -> "s"
      [] c = "F" -> "f" [] OTHER -> c

\* new URL(value), as far as isValidUrl looks at it: the scheme is the
\* text before the first ":", a letter followed by letters, digits, "+",
\* "-" or "."; without one the constructor throws.  For http and https the
\* slashes after the scheme are skipped and a host must follow, up to the
\* next "/", "?", "#" or ":"; an empty host, or one holding a character a
\* host cannot hold, makes the constructor throw.
UrlSchemeEnd(s) == IndexFrom(s, ":", 1)

UrlHasScheme(s) ==
    LET e == UrlSchemeEnd(s)
    IN  /\ e > 1
        /\ s[1] \in Lower \cup Upper
        /\ \A i \in 2..(e - 1) : s[i] \in Lower \cup Upper \cup Digit \cup {"+","-","."}

UrlProtocol(s) == [i \in 1..(UrlSchemeEnd(s) - 1) |-> ToLower(s[i])]

RECURSIVE SkipSlashes(_)
SkipSlashes(s) ==
    IF s # <<>> /\ Head(s) \in {"/", "\\"} THEN SkipSlashes(Tail(s)) ELSE s

RECURSIVE UrlHost(_)
UrlHost(s) ==
    IF s = <<>> \/ Head(s) \in {"/", "\\", "?", "#", ":"} THEN <<>>
    ELSE <<Head(s)>> \o UrlHost(Tail(s))

ForbiddenHostChar == WS \cup {"<", ">", "@", "[", "]", "^", "|", "%"}

UrlParses(s) ==
    /\ UrlHasScheme(s)
    /\ UrlProtocol(s) \in {<<"h","t","t","p">>, <<"h","t","t","p","s">>} =>
         LET host == UrlHost(SkipSlashes(Suffix(s, UrlSchemeEnd(s) + 1)))
         IN  host # <<>> /\ \A i \in 1..Len(host) : host[i] \notin ForbiddenHostChar

\* isValidUrl
isValidUrl(value) ==
    IF value = <<>> THEN TRUE
    ELSE IF ~UrlParses(value) THEN FALSE
    ELSE UrlProtocol(value) \in {<<"h","t","t","p">>, <<"h","t","t","p","s">>}

\* A mutant of ALLOWED_SERVICES: "Other" is not in the catalogue.
ALLOWED_SERVICES_WithoutOther ==
    { <<"M","a","r","k","e","t","i","n","g"," ","S","t","r","a","t","e","g","y">>,
      <<"B","r","a","n","d"," ","I","d","e","n","t","i","t","y">>,
      <<"C","o","n","t","e","n","t"," ","C","r","e","a","t","i","o","n">>,
      <<"F","i","l","m","i","n","g"," ","&"," ","P","r","o","d","u","c","t","i","o","n">>,
      <<"S","o","c","i","a","l"," ","M","e","d","i","a">> }

ALLOWED_SERVICES ==
    { <<"M","a","r","k","e","t","i","n","g"," ","S","t","r","a","t","e","g","y">>,
      <<"B","r","a","n","d"," ","I","d","e","n","t","i","t","y">>,
      <<"C","o","n","t","e","n","t"," ","C","r","e","a","t","i","o","n">>,
      <<"F","i","l","m","i","n","g"," ","&"," ","P","r","o","d","u","c","t","i","o","n">>,
      <<"S","o","c","i","a","l"," ","M","e","d","i","a">>,
      <<"O","t","h","e","r">> }

ALLOWED_EXPERIENCE ==
    { <<"F","r","e","s","h","e","r">>,
      <<"1","-","3"," ","Y","e","a","r","s">>,
      <<"3","-","5"," ","Y","e","a","r","s">>,
      <<"5","+"," ","Y","e","a","r","s">>,
      <<"C","u","r","r","e","n","t","l","y"," ","A","t","t","e","n","d","i","n","g",
        " ","C","o","l","l","e","g","e">> }

ALLOWED_MIME ==
    { "application/pdf",
      "application/msword",
      "application/vnd.openxmlformats-officedocument.wordprocessingml.document" }

MAX_FILE_BYTES == 5 * 1024 * 1024

(* ------------------------------------------------------------------ *)
(* State                                                               *)
(* ------------------------------------------------------------------ *)

VARIABLES
    endpoint,     \* "none", "contact" or "careers": the route the request went to
    request,      \* the request as received: how its body parses and its raw fields
    pc,           \* the handler's position
    steps,        \* the steps the handler has executed, in order
    fields,       \* the sanitized field values (name, email, ...)
    cvFile,       \* careers: the cv entry kept as a file, or NoFile
    errors,       \* the validation error map: field name -> message
    mail,         \* the composed message: subject, text and html body
    attachments,  \* careers: cvAttachment
    sent,         \* every options object handed to transporter.sendMail, in order
    sendError,    \* the text of the exception sendMail threw, "" when none
    response,     \* the NextResponse the handler returned, NoResponse before
    fnIn,         \* sanitize on its own: the input string
    fnMax,        \* sanitize on its own: the maxLen argument
    fnOut,        \* sanitize on its own: the result
    fnPc,         \* sanitize on its own: "ready", then the route whose sanitize ran
    handlers,     \* concurrent requests: the local variables of each invocation of POST
    outbox,       \* concurrent requests: the messages handed to the module-level transporters
    page,         \* the mounted form component: "none", "contact" or "careers"
    selectedJob,  \* Careers: the id of the selected job, 0 for null
    formData,     \* the form component's formData state
    formErrors,   \* the form component's errors state
    status,       \* the form component's status state
    seenStatus,   \* the status of the last committed render, which handleSubmit closes over
    selectedFile, \* Careers: the selectedFile state, NoFile for null
    fileError,    \* Careers: the fileError state
    flights,      \* the POSTs whose fetch has not settled yet
    posts,        \* the number of POSTs started so far
    succeeded,    \* the job (0 on the contact page) whose submission set status to success, -1 when status is not success
    settled       \* res of the handleSubmit that last went on after its fetch: the response, or the rejection

vars == <<endpoint, request, pc, steps, fields, cvFile, errors, mail, attachments,
          sent, sendError, response, fnIn, fnMax, fnOut, fnPc, handlers, outbox,
          page, selectedJob, formData, formErrors, status, seenStatus, selectedFile,
          fileError, flights, posts, succeeded, settled>>

handlerVars == <<endpoint, request, pc, steps, fields, cvFile, errors, mail,
                 attachments, sent, sendError, response>>

fnVars == <<fnIn, fnMax, fnOut, fnPc>>

concVars == <<handlers, outbox>>

clientVars == <<page, selectedJob, formData, formErrors, status, seenStatus, selectedFile,
                fileError, flights, posts, succeeded, settled>>

NoRequest == [parse |-> "none"]
NoFields == [none |-> TRUE]
NoFile == [kind |-> "none", name |-> <<>>, type |-> "", size |-> 0, content |-> "",
           readable |-> TRUE]
NoErrors == [k \in {} |-> ""]
NoMail == [none |-> TRUE]
NoResponse == [status |-> 0, ok |-> FALSE, error |-> "", errors |-> NoErrors]

\* NextResponse.json({ ok: true }) and NextResponse.json({ ok: true }, { status: 200 })
OkResponse == [status |-> 200, ok |-> TRUE, error |-> "", errors |-> NoErrors]

\* NextResponse.json({ error }, { status })
ErrorResponse(code, text) ==
    [status |-> code, ok |-> FALSE, error |-> text, errors |-> NoErrors]

\* NextResponse.json({ errors }, { status: 422 })
ErrorsResponse(errs) == [status |-> 422, ok |-> FALSE, error |-> "", errors |-> errs]

\* A mutant of Truthy: the honeypot asks for more than one character.
TruthyLongerThanOne(val) == val.isString /\ Len(val.v) > 1

\* A value is truthy in an "if": a non-empty string (an absent field is not).
Truthy(val) == val.isString /\ val.v # <<>>

\* errors[k] = msg
Put(errs, k, msg) == [x \in DOMAIN errs \cup {k} |-> IF x = k THEN msg ELSE errs[x]]

\* A mutant of HasErrors: an off-by-one in the count of keys.
HasErrorsOffByOne(errs) == Cardinality(DOMAIN errs) > 1

\* Object.keys(errors).length > 0
HasErrors(errs) == Cardinality(DOMAIN errs) > 0

\* lines.join("\n")
RECURSIVE Join(_)
Join(lines) ==
    IF lines = <<>> THEN <<>>
    ELSE IF Len(lines) = 1 THEN lines[1]
    ELSE lines[1] \o <<"\n">> \o Join(Tail(lines))

\* The messages sendMail can fail with (the text of the transport's exception).
SmtpErrors == {"connect ECONNREFUSED 10.0.0.5:587", "Invalid login: 535 Authentication failed"}

(* ------------------------------------------------------------------ *)
(* Requests                                                            *)
(* ------------------------------------------------------------------ *)

WebsiteValues == { NotAString, Str(<<>>), Str(<<"x">>) }

ContactNames ==
    { NotAString,
      Str(<<"A">>),
      Str(<<"A","l","e","x"," ","L","e","e">>),
      Str(<<"A","l","\r","\n","B","c","c",":","x">>),
      Str(<<"<","b",">","O","'","K","<","/","b",">">>) }

EmailValues ==
    { NotAString,
      Str(<<"a","l","e","x","@","b","r","a","n","d">>),
      Str(<<"a","l","e","x","@","b","r","a","n","d",".","c","o","m">>),
      Str(<<"a","'","b","&","c","@","x",".","i","o">>) }

CompanyValues ==
    { NotAString,
      Str(<<"A","<","B"," ","&"," ","\"","C","\"">>) }

ServiceValues ==
    { NotAString,
      Str(<<" ">>),
      Str(<<"O","t","h","e","r">>),
      Str(<<"S","E","O">>) }

MessageValues ==
    { NotAString,
      Str(<<"H","i"," ","t","h","e","r","e">>),
      Str(<<"W","e","'","d"," ","l","i","k","e"," ","a"," ","q","u","o","t","e"," ",
            "f","o","r"," ","b","r","a","n","d","i","n","g"," ","w","o","r","k",".">>),
      Str(<<"<","i",">","H","e","l","l","o","<","/","i",">"," ","t","e","a","m"," ",
            ">"," ","a"," ","&"," ","\"","b","\""," ","<"," ","c">>) }

\* A contact request: a body that is no JSON ("malformed"), the JSON null,
\* a JSON number, string or boolean ("scalar": every property of it is
\* undefined), or a JSON object with the fields of the form.
ContactBody(parse, website, name, email, company, service, message) ==
    [parse |-> parse, website |-> website, name |-> name, email |-> email,
     company |-> company, service |-> service, message |-> message]

ContactRequests ==
    { ContactBody(p, NotAString, NotAString, NotAString, NotAString, NotAString, NotAString) :
        p \in {"malformed", "null", "scalar"} }
    \cup
    { ContactBody("object", w, n, e, c, s, m) :
        w \in WebsiteValues, n \in ContactNames, e \in EmailValues,
        c \in CompanyValues, s \in ServiceValues, m \in MessageValues }

(* ------------------------------------------------------------------ *)
(* Contact route                                                       *)
(* ------------------------------------------------------------------ *)

\* errors of the contact handler, the four rules in the order of the source
ContactErrors(f) ==
    LET e1 == IF f.name = <<>> \/ Len(f.name) < 2
              THEN Put(NoErrors, "name", "Name must be at least 2 characters.")
              ELSE NoErrors
        e2 == IF f.email = <<>> \/ ~EMAIL_RE_test(f.email)
              THEN Put(e1, "email", "A valid email address is required.")
              ELSE e1
        e3 == IF f.message = <<>> \/ Len(f.message) < 10
              THEN Put(e2, "message", "Please tell us a bit more (at least 10 characters).")
              ELSE e2
        e4 == IF f.service # <<>> /\ f.service \notin ALLOWED_SERVICES
              THEN Put(e3, "service", "Invalid service selection.")
              ELSE e3
    IN  e4

ContactFrom == <<"process.env.SMTP_FROM ?? \"7ZeroMedia\" <process.env.SMTP_USER>">>
ContactTo == <<"info@7zero.media">>

\* A mutant of companyLine: no line for an absent company.
companyLineOmitted(f) ==
    IF f.company # <<>> THEN <<"Company:  ">> \o f.company ELSE <<>>

companyLine(f) ==
    IF f.company # <<>> THEN <<"Company:  ">> \o f.company ELSE <<"Company:  [em dash]">>

serviceLine(f) ==
    IF f.service # <<>> THEN <<"Service:  ">> \o f.service ELSE <<"Service:  Not specified">>

\* The array joined into textBody of the contact handler.
ContactTextLines(f) ==
    << <<"New contact inquiry received via 7ZeroMedia website.">>,
       <<>>,
       <<"Name:     ">> \o f.name,
       <<"Email:    ">> \o f.email,
       companyLine(f),
       serviceLine(f),
       <<>>,
       <<"Message:">>,
       f.message,
       <<>>,
       <<"[rule of box-drawing dashes]">>,
       <<"This email was sent automatically. Do not reply to this address.">> >>

\* htmlBody of the contact handler: the template's text between two
\* interpolations is one element, each interpolated value is its characters.
ContactHtml(f) ==
    Trim(Flatten(<<
        <<"[html: head, header, Name label]">>, escapeHtml(f.name),
        <<"[html: Email label, <a href=\"mailto:]">>, escapeHtml(f.email),
        <<"[html: \" style>]">>, escapeHtml(f.email),
        <<"[html: </a>]">>,
        IF f.company # <<>>
        THEN <<"[html: Company / Brand label]">> \o escapeHtml(f.company) \o <<"[html: </p></td></tr>]">>
        ELSE <<>>,
        IF f.service # <<>>
        THEN <<"[html: Service Interested In label]">> \o escapeHtml(f.service) \o <<"[html: </p></td></tr>]">>
        ELSE <<>>,
        <<"[html: Message label]">>, escapeHtml(f.message),
        <<"[html: Reply CTA, <a href=\"mailto:]">>, escapeHtml(f.email),
        <<"[html: ?subject=Re: Your inquiry to 7ZeroMedia\" style> Reply to ]">>, escapeHtml(f.name),
        <<"[html: </a>, footer, </html>]">> >>))

\* A mutant of ContactMail: the submitter's address is used as the sender.
ContactMailFromSubmitter(f) ==
    [from        |-> f.email,
     to          |-> ContactTo,
     replyTo     |-> f.email,
     subject     |-> <<"New Contact Inquiry from ">> \o f.name,
     text        |-> Join(ContactTextLines(f)),
     html        |-> ContactHtml(f),
     attachments |-> <<>>]

\* A mutant of ContactMail: replyTo is the configured sender, not the submitter.
ContactMailReplyToSender(f) ==
    [from        |-> ContactFrom,
     to          |-> ContactTo,
     replyTo     |-> ContactFrom,
     subject     |-> <<"New Contact Inquiry from ">> \o f.name,
     text        |-> Join(ContactTextLines(f)),
     html        |-> ContactHtml(f),
     attachments |-> <<>>]

\* The options object the contact handler hands to transporter.sendMail.
ContactMail(f) ==
    [from        |-> ContactFrom,
     to          |-> ContactTo,
     replyTo     |-> f.email,
     subject     |-> <<"New Contact Inquiry from ">> \o f.name,
     text        |-> Join(ContactTextLines(f)),
     html        |-> ContactHtml(f),
     attachments |-> <<>>]

\* A request arrives at one of the two routes.
ReceiveContact ==
    /\ pc = "idle"
    /\ \E r \in ContactRequests : request' = r
    /\ endpoint' = "contact"
    /\ pc' = "Received"
    /\ UNCHANGED <<steps, fields, cvFile, errors, mail, attachments, sent, sendError,
                   response, fnVars, concVars, clientVars>>

\* body = await req.json(), 400 when it throws
ContactParse ==
    /\ endpoint = "contact" /\ pc = "Received"
    /\ steps' = Append(steps, "parse")
    /\ IF request.parse = "malformed"
       THEN /\ response' = ErrorResponse(400, "Invalid request body.")
            /\ pc' = "Responded"
       ELSE /\ pc' = "Parsed"
            /\ UNCHANGED response
    /\ UNCHANGED <<endpoint, request, fields, cvFile, errors, mail, attachments, sent,
                   sendError, fnVars, concVars, clientVars>>

\* if (body.website) return { ok: true }; reading a property of null throws
\* a TypeError that nothing in the handler catches.
ContactHoneypot ==
    /\ endpoint = "contact" /\ pc = "Parsed"
    /\ steps' = Append(steps, "honeypot")
    /\ IF request.parse = "null"
       THEN /\ pc' = "Threw"
            /\ UNCHANGED response
       ELSE IF Truthy(request.website)
       THEN /\ response' = OkResponse
            /\ pc' = "Responded"
       ELSE /\ pc' = "HoneypotChecked"
            /\ UNCHANGED response
    /\ UNCHANGED <<endpoint, request, fields, cvFile, errors, mail, attachments, sent,
                   sendError, fnVars, concVars, clientVars>>

\* Extract & sanitize
ContactSanitize ==
    /\ endpoint = "contact" /\ pc = "HoneypotChecked"
    /\ steps' = Append(steps, "sanitize")
    /\ fields' = [name    |-> sanitizeContact(request.name, 120),
                  email   |-> sanitizeContact(request.email, 254),
                  company |-> sanitizeContact(request.company, 120),
                  service |-> sanitizeContact(request.service, 60),
                  message |-> sanitizeContact(request.message, 4000)]
    /\ pc' = "Sanitized"
    /\ UNCHANGED <<endpoint, request, cvFile, errors, mail, attachments, sent, sendError,
                   response, fnVars, concVars, clientVars>>

\* Server-side validation, 422 with the error map when it has a key
ContactValidate ==
    /\ endpoint = "contact" /\ pc = "Sanitized"
    /\ steps' = Append(steps, "validate")
    /\ errors' = ContactErrors(fields)
    /\ IF HasErrors(errors')
       THEN /\ response' = ErrorsResponse(errors')
            /\ pc' = "Responded"
       ELSE /\ pc' = "Validated"
            /\ UNCHANGED response
    /\ UNCHANGED <<endpoint, request, fields, cvFile, mail, attachments, sent, sendError,
                   fnVars, concVars, clientVars>>

\* textBody and htmlBody are built
ContactCompose ==
    /\ endpoint = "contact" /\ pc = "Validated"
    /\ steps' = Append(steps, "compose")
    /\ mail' = ContactMail(fields)
    /\ pc' = "Composed"
    /\ UNCHANGED <<endpoint, request, fields, cvFile, errors, attachments, sent, sendError,
                   response, fnVars, concVars, clientVars>>

\* await transporter.sendMail(...): it resolves, or throws a transport error
ContactSend ==
    /\ endpoint = "contact" /\ pc = "Composed"
    /\ steps' = Append(steps, "send")
    /\ sent' = Append(sent, mail)
    /\ \E e \in SmtpErrors \cup {""} : sendError' = e
    /\ pc' = "Dispatched"
    /\ UNCHANGED <<endpoint, request, fields, cvFile, errors, mail, attachments, response,
                   fnVars, concVars, clientVars>>

\* A mutant of ContactRespond: the catch block sends the message again.
ContactRespondRetry ==
    /\ endpoint = "contact" /\ pc = "Dispatched"
    /\ steps' = Append(steps, "respond")
    /\ IF sendError # ""
       THEN /\ pc' = "Composed"
            /\ UNCHANGED response
       ELSE /\ pc' = "Responded"
            /\ response' = OkResponse
    /\ UNCHANGED <<endpoint, request, fields, cvFile, errors, mail, attachments, sent,
                   sendError, fnVars, concVars, clientVars>>

\* A mutant of ContactRespond: the catch block answers with the exception's text.
ContactRespondLeaky ==
    /\ endpoint = "contact" /\ pc = "Dispatched"
    /\ steps' = Append(steps, "respond")
    /\ response' = IF sendError # "" THEN ErrorResponse(500, sendError) ELSE OkResponse
    /\ pc' = "Responded"
    /\ UNCHANGED <<endpoint, request, fields, cvFile, errors, mail, attachments, sent,
                   sendError, fnVars, concVars, clientVars>>

\* The catch block answers 500, the last line of the handler 200.
ContactRespond ==
    /\ endpoint = "contact" /\ pc = "Dispatched"
    /\ steps' = Append(steps, "respond")
    /\ response' = IF sendError # ""
                   THEN ErrorResponse(500, "Unable to process request at this time.")
                   ELSE OkResponse
    /\ pc' = "Responded"
    /\ UNCHANGED <<endpoint, request, fields, cvFile, errors, mail, attachments, sent,
                   sendError, fnVars, concVars, clientVars>>

(* ------------------------------------------------------------------ *)
(* Careers route                                                       *)
(* ------------------------------------------------------------------ *)

CareersNames ==
    { NotAString,
      Str(<<"A">>),
      Str(<<"O","'","N","e","i","l"," ","<","b">>) }

CareersEmails ==
    { Str(<<"a","l","e","x","@","b","r","a","n","d">>),
      Str(<<"a","\n","b","@","x",".","i","o">>),
      Str(<<"a","'","b","&","c","@","x",".","i","o">>) }

PortfolioValues ==
    { NotAString,
      Str(<<"h","t","t","p","s",":","/","/","a",".","i","o","/","?","q","=","\"","x","\"",
            "&","r","=","1">>),
      Str(<<"f","t","p",":","/","/","a",".","i","o">>) }

LinkedinValues == { NotAString, Str(<<"a",".","i","o">>) }

GithubValues == { NotAString, Str(<<"h","t","t","p",":","/","/","b",".","c","o">>) }

ExperienceValues ==
    { NotAString,
      Str(<<"F","r","e","s","h","e","r">>),
      Str(<<"1","0"," ","Y","e","a","r","s">>) }

AboutValues ==
    { Str(<<"H","i"," ","t","h","e","r","e">>),
      Str(<<"<","i",">","H","e","l","l","o","<","/","i",">"," ","t","e","a","m"," ",
            ">"," ","a"," ","&"," ","\"","b","\""," ","<"," ","c">>) }

JobTitleValues ==
    { NotAString,
      Str(<<"O","p","s","\r","\n","B","c","c",":","x">>),
      Str(<<"R","&","D"," ","'","L","e","a","d","'">>) }

\* A File of the multipart form: its name, declared media type, size in
\* bytes, content, and whether arrayBuffer() can read it.
File(name, type, size, content, readable) ==
    [kind |-> "file", name |-> name, type |-> type, size |-> size, content |-> content,
     readable |-> readable]

\* The cv entry of the form: absent, a text value, or a File.
CvEntries ==
    { NoFile,
      [NoFile EXCEPT !.kind = "string"],
      File(<<"c","v",".","p","d","f">>, "application/pdf", 0, "", TRUE),
      File(<<"c","v",".","p","d","f">>, "application/pdf", 1, "bytes-1", TRUE),
      File(<<"a","&","b","'","<","i",".","p","d","f">>, "application/msword",
           MAX_FILE_BYTES, "bytes-2", TRUE),
      File(<<"c","v",".","p","d","f">>, "application/pdf", MAX_FILE_BYTES + 1, "bytes-3", TRUE),
      File(<<"c","v",".","t","x","t">>, "text/plain", 0, "", TRUE),
      File(<<"c","v",".","t","x","t">>, "text/plain", 1, "bytes-4", TRUE),
      File(<<"c","v",".","t","x","t">>, "text/plain", MAX_FILE_BYTES + 1, "bytes-5", TRUE),
      File(<<"c","v",".","d","o","c","x">>,
           "application/vnd.openxmlformats-officedocument.wordprocessingml.document",
           2, "bytes-6", FALSE) }

\* A careers request: a body that is no multipart form ("malformed"), or a
\* form with the fields of the page.
CareersForm(parse, w, n, e, p, l, g, x, a, j, cv) ==
    [parse |-> parse, website |-> w, name |-> n, email |-> e,
     portfolio |-> p, linkedin |-> l, github |-> g,
     experience |-> x, about |-> a, jobTitle |-> j, cv |-> cv]

CareersRequests ==
    { CareersForm("malformed", NotAString, NotAString, NotAString, NotAString, NotAString,
                  NotAString, NotAString, NotAString, NotAString, NoFile) }
    \cup
    { CareersForm("form", w, n, e, p, l, g, x, a, j, cv) :
        w \in WebsiteValues, n \in CareersNames, e \in CareersEmails,
        p \in PortfolioValues, l \in LinkedinValues, g \in GithubValues,
        x \in ExperienceValues, a \in AboutValues, j \in JobTitleValues,
        cv \in CvEntries }

\* cvEntry instanceof File && cvEntry.size > 0 ? cvEntry : null
CvFileOf(cvEntry) ==
    IF cvEntry.kind = "file" /\ cvEntry.size > 0 THEN cvEntry ELSE NoFile

\* A mutant of FileErrors: the size check is >= instead of >.
FileErrorsInclusive(errs, cv) ==
    LET e1 == IF cv = NoFile THEN Put(errs, "file", "A CV file is required.") ELSE errs
    IN  IF cv # NoFile
        THEN IF cv.type \notin ALLOWED_MIME
             THEN Put(e1, "file", "Only PDF, DOC, or DOCX files are accepted.")
             ELSE IF cv.size >= MAX_FILE_BYTES
             THEN Put(e1, "file", "CV must be 5 MB or smaller.")
             ELSE e1
        ELSE e1

\* A mutant of FileErrors: the media type is not checked.
FileErrorsNoTypeCheck(errs, cv) ==
    LET e1 == IF cv = NoFile THEN Put(errs, "file", "A CV file is required.") ELSE errs
    IN  IF cv # NoFile /\ cv.size > MAX_FILE_BYTES
        THEN Put(e1, "file", "CV must be 5 MB or smaller.")
        ELSE e1

\* A mutant of FileErrors: the size is checked before the media type.
FileErrorsSizeFirst(errs, cv) ==
    LET e1 == IF cv = NoFile THEN Put(errs, "file", "A CV file is required.") ELSE errs
    IN  IF cv # NoFile
        THEN IF cv.size > MAX_FILE_BYTES
             THEN Put(e1, "file", "CV must be 5 MB or smaller.")
             ELSE IF cv.type \notin ALLOWED_MIME
             THEN Put(e1, "file", "Only PDF, DOC, or DOCX files are accepted.")
             ELSE e1
        ELSE e1

\* The attachment check: required, then media type, else size.
FileErrors(errs, cv) ==
    LET e1 == IF cv = NoFile THEN Put(errs, "file", "A CV file is required.") ELSE errs
    IN  IF cv # NoFile
        THEN IF cv.type \notin ALLOWED_MIME
             THEN Put(e1, "file", "Only PDF, DOC, or DOCX files are accepted.")
             ELSE IF cv.size > MAX_FILE_BYTES
             THEN Put(e1, "file", "CV must be 5 MB or smaller.")
             ELSE e1
        ELSE e1

\* errors of the careers handler, the rules in the order of the source
CareersErrors(f, cv) ==
    LET e1 == IF f.name = <<>> \/ Len(f.name) < 2
              THEN Put(NoErrors, "name", "Name must be at least 2 characters.")
              ELSE NoErrors
        e2 == IF f.email = <<>> \/ ~EMAIL_RE_test(f.email)
              THEN Put(e1, "email", "A valid email address is required.")
              ELSE e1
        e3 == IF f.portfolio # <<>> /\ ~isValidUrl(f.portfolio)
              THEN Put(e2, "portfolio", "Portfolio must be a valid URL.")
              ELSE e2
        e4 == IF f.linkedin # <<>> /\ ~isValidUrl(f.linkedin)
              THEN Put(e3, "linkedin", "LinkedIn must be a valid URL.")
              ELSE e3
        e5 == IF f.github # <<>> /\ ~isValidUrl(f.github)
              THEN Put(e4, "github", "GitHub must be a valid URL.")
              ELSE e4
        e6 == IF f.experience = <<>> \/ f.experience \notin ALLOWED_EXPERIENCE
              THEN Put(e5, "experience", "A valid experience level is required.")
              ELSE e5
        e7 == IF f.about = <<>> \/ Len(f.about) < 10
              THEN Put(e6, "about", "Please provide more detail (at least 10 characters).")
              ELSE e6
    IN  FileErrors(e7, cv)

CareersFrom == <<"process.env.SMTP_HR_FROM ?? \"7ZeroMedia Careers\" <process.env.SMTP_HR_USER>">>
CareersTo == <<"hr@laneway.in">>

\* An element of the array textBody is built from: a string or null.
Line(s) == [isNull |-> FALSE, s |-> s]
NullLine == [isNull |-> TRUE, s |-> <<>>]

\* Boolean(x) of an array element: null and the empty string are falsy.
IsTruthyLine(l) == ~l.isNull /\ l.s # <<>>

\* x || fallback for strings
OrElse(s, fallback) == IF s # <<>> THEN s ELSE fallback

\* The array of the careers textBody before .filter(Boolean)
CareersTextArray(f) ==
    << Line(<<"New job application received via 7ZeroMedia website.">>),
       Line(<<"Position: ">> \o OrElse(f.jobTitle, <<"Not specified">>)),
       Line(<<>>),
       Line(<<"Name:        ">> \o f.name),
       Line(<<"Email:       ">> \o f.email),
       Line(<<"Experience:  ">> \o f.experience),
       IF f.portfolio # <<>> THEN Line(<<"Portfolio:   ">> \o f.portfolio) ELSE NullLine,
       IF f.linkedin # <<>> THEN Line(<<"LinkedIn:    ">> \o f.linkedin) ELSE NullLine,
       IF f.github # <<>> THEN Line(<<"GitHub:      ">> \o f.github) ELSE NullLine,
       Line(<<>>),
       Line(<<"About the candidate:">>),
       Line(f.about),
       Line(<<>>),
       Line(<<"[rule of box-drawing dashes]">>),
       Line(<<"CV is attached to this email.">>),
       Line(<<"This message was sent automatically from the 7ZeroMedia careers form.">>) >>

\* .filter(Boolean), then the strings of the elements kept
CareersTextLines(f) ==
    LET kept == SelectSeq(CareersTextArray(f), IsTruthyLine)
    IN  [i \in 1..Len(kept) |-> kept[i].s]

\* htmlBody of the careers handler: the values are interpolated as they are.
CareersHtml(f, cv) ==
    Trim(Flatten(<<
        <<"[html: head, header]">>,
        IF f.jobTitle # <<>>
        THEN <<"[html: <p>Position: <strong>]">> \o f.jobTitle \o <<"[html: </strong></p>]">>
        ELSE <<>>,
        <<"[html: Full Name label]">>, f.name,
        <<"[html: Email label, <a href=\"mailto:]">>, f.email,
        <<"[html: \" style>]">>, f.email,
        <<"[html: </a>, Experience Level label]">>, f.experience,
        <<"[html: </p></td></tr>]">>,
        IF f.portfolio # <<>>
        THEN <<"[html: Portfolio label, <a href=\"]">> \o f.portfolio \o <<"[html: \" style>]">>
             \o f.portfolio \o <<"[html: </a></p></td></tr>]">>
        ELSE <<>>,
        IF f.linkedin # <<>>
        THEN <<"[html: LinkedIn label, <a href=\"]">> \o f.linkedin \o <<"[html: \" style>]">>
             \o f.linkedin \o <<"[html: </a></p></td></tr>]">>
        ELSE <<>>,
        IF f.github # <<>>
        THEN <<"[html: GitHub label, <a href=\"]">> \o f.github \o <<"[html: \" style>]">>
             \o f.github \o <<"[html: </a></p></td></tr>]">>
        ELSE <<>>,
        <<"[html: About the Candidate label]">>, f.about,
        <<"[html: CV is attached to this email as <em>]">>,
        IF cv # NoFile THEN cv.name ELSE <<"cv">>,
        <<"[html: </em>, Reply CTA, <a href=\"mailto:]">>, f.email,
        <<"[html: ?subject=Re: Your application for ]">>,
        encodeURIComponent(OrElse(f.jobTitle, <<"t","h","e"," ","p","o","s","i","t","i","o","n">>)),
        <<"[html:  at 7ZeroMedia\" style> Reply to ]">>, f.name,
        <<"[html: </a>, footer, </html>]">> >>))

\* The options object the careers handler hands to transporter.sendMail.
CareersMail(f, cv) ==
    [from        |-> CareersFrom,
     to          |-> CareersTo,
     replyTo     |-> f.email,
     subject     |-> <<"New Application: ">> \o OrElse(f.jobTitle, <<"Open Position">>)
                       \o <<" [em dash] ">> \o f.name,
     text        |-> Join(CareersTextLines(f)),
     html        |-> CareersHtml(f, cv),
     attachments |-> <<>>]

ReceiveCareers ==
    /\ pc = "idle"
    /\ \E r \in CareersRequests : request' = r
    /\ endpoint' = "careers"
    /\ pc' = "Received"
    /\ UNCHANGED <<steps, fields, cvFile, errors, mail, attachments, sent, sendError,
                   response, fnVars, concVars, clientVars>>

\* A mutant of CareersParse: the catch block builds the 400 response and
\* does not return it.
CareersParseNoReturn ==
    /\ endpoint = "careers" /\ pc = "Received"
    /\ steps' = Append(steps, "parse")
    /\ response' = IF request.parse = "malformed"
                   THEN ErrorResponse(400, "Invalid request body.")
                   ELSE response
    /\ pc' = "Parsed"
    /\ UNCHANGED <<endpoint, request, fields, cvFile, errors, mail, attachments, sent,
                   sendError, fnVars, concVars, clientVars>>

\* body = await req.formData(), 400 when it throws
CareersParse ==
    /\ endpoint = "careers" /\ pc = "Received"
    /\ steps' = Append(steps, "parse")
    /\ IF request.parse = "malformed"
       THEN /\ response' = ErrorResponse(400, "Invalid request body.")
            /\ pc' = "Responded"
       ELSE /\ pc' = "Parsed"
            /\ UNCHANGED response
    /\ UNCHANGED <<endpoint, request, fields, cvFile, errors, mail, attachments, sent,
                   sendError, fnVars, concVars, clientVars>>

\* if (body.get("website")) return { ok: true }
CareersHoneypot ==
    /\ endpoint = "careers" /\ pc = "Parsed"
    /\ steps' = Append(steps, "honeypot")
    /\ IF Truthy(request.website)
       THEN /\ response' = OkResponse
            /\ pc' = "Responded"
       ELSE /\ pc' = "HoneypotChecked"
            /\ UNCHANGED response
    /\ UNCHANGED <<endpoint, request, fields, cvFile, errors, mail, attachments, sent,
                   sendError, fnVars, concVars, clientVars>>

\* Extract & sanitize text fields, extract CV file
CareersSanitize ==
    /\ endpoint = "careers" /\ pc = "HoneypotChecked"
    /\ steps' = Append(steps, "sanitize")
    /\ fields' = [name       |-> sanitizeCareers(request.name, 120),
                  email      |-> sanitizeCareers(request.email, 254),
                  portfolio  |-> sanitizeCareers(request.portfolio, 512),
                  linkedin   |-> sanitizeCareers(request.linkedin, 512),
                  github     |-> sanitizeCareers(request.github, 512),
                  experience |-> sanitizeCareers(request.experience, 60),
                  about      |-> sanitizeCareers(request.about, 4000),
                  jobTitle   |-> sanitizeCareers(request.jobTitle, 120)]
    /\ cvFile' = CvFileOf(request.cv)
    /\ pc' = "Sanitized"
    /\ UNCHANGED <<endpoint, request, errors, mail, attachments, sent, sendError, response,
                   fnVars, concVars, clientVars>>

\* Server-side validation, 422 with the error map when it has a key
CareersValidate ==
    /\ endpoint = "careers" /\ pc = "Sanitized"
    /\ steps' = Append(steps, "validate")
    /\ errors' = CareersErrors(fields, cvFile)
    /\ IF HasErrors(errors')
       THEN /\ response' = ErrorsResponse(errors')
            /\ pc' = "Responded"
       ELSE /\ pc' = "Validated"
            /\ UNCHANGED response
    /\ UNCHANGED <<endpoint, request, fields, cvFile, mail, attachments, sent, sendError,
                   fnVars, concVars, clientVars>>

\* Build email content
CareersCompose ==
    /\ endpoint = "careers" /\ pc = "Validated"
    /\ steps' = Append(steps, "compose")
    /\ mail' = CareersMail(fields, cvFile)
    /\ pc' = "Composed"
    /\ UNCHANGED <<endpoint, request, fields, cvFile, errors, attachments, sent, sendError,
                   response, fnVars, concVars, clientVars>>

\* Attach the CV file: await cvFile.arrayBuffer() is outside every try, a
\* rejection leaves the handler as an exception.
CareersAttach ==
    /\ endpoint = "careers" /\ pc = "Composed"
    /\ steps' = Append(steps, "attach")
    /\ IF cvFile # NoFile
       THEN IF cvFile.readable
            THEN /\ attachments' = << [filename    |-> cvFile.name,
                                       content     |-> cvFile.content,
                                       contentType |-> cvFile.type] >>
                 /\ pc' = "Attached"
            ELSE /\ pc' = "Threw"
                 /\ UNCHANGED attachments
       ELSE /\ pc' = "Attached"
            /\ UNCHANGED attachments
    /\ UNCHANGED <<endpoint, request, fields, cvFile, errors, mail, sent, sendError,
                   response, fnVars, concVars, clientVars>>

\* await transporter.sendMail(...): it resolves, or throws a transport error
CareersSend ==
    /\ endpoint = "careers" /\ pc = "Attached"
    /\ steps' = Append(steps, "send")
    /\ sent' = Append(sent, [mail EXCEPT !.attachments = attachments])
    /\ \E e \in SmtpErrors \cup {""} : sendError' = e
    /\ pc' = "Dispatched"
    /\ UNCHANGED <<endpoint, request, fields, cvFile, errors, mail, attachments, response,
                   fnVars, concVars, clientVars>>

\* The catch block answers 500, the last line of the handler 200.
CareersRespond ==
    /\ endpoint = "careers" /\ pc = "Dispatched"
    /\ steps' = Append(steps, "respond")
    /\ response' = IF sendError # ""
                   THEN ErrorResponse(500,
                            "Unable to process your application at this time. Please try again.")
                   ELSE OkResponse
    /\ pc' = "Responded"
    /\ UNCHANGED <<endpoint, request, fields, cvFile, errors, mail, attachments, sent,
                   sendError, fnVars, concVars, clientVars>>

(* ------------------------------------------------------------------ *)
(* The handlers                                                        *)
(* ------------------------------------------------------------------ *)

HandlerInit ==
    /\ endpoint = "none"
    /\ request = NoRequest
    /\ pc = "idle"
    /\ steps = <<>>
    /\ fields = NoFields
    /\ cvFile = NoFile
    /\ errors = NoErrors
    /\ mail = NoMail
    /\ attachments = <<>>
    /\ sent = <<>>
    /\ sendError = ""
    /\ response = NoResponse

FnIdle ==
    /\ fnIn = <<>>
    /\ fnMax = 0
    /\ fnOut = <<>>
    /\ fnPc = "off"

\* No concurrent requests are modelled.
ConcIdle ==
    /\ handlers = <<>>
    /\ outbox = <<>>

\* No form component is mounted.
ClientIdle ==
    /\ page = "none"
    /\ selectedJob = 0
    /\ formData = NoFields
    /\ formErrors = NoErrors
    /\ status = "idle"
    /\ seenStatus = "idle"
    /\ selectedFile = NoFile
    /\ fileError = ""
    /\ flights = <<>>
    /\ posts = 0
    /\ succeeded = -1
    /\ settled = NoResponse

Init == HandlerInit /\ FnIdle /\ ConcIdle /\ ClientIdle

Next ==
    \/ ReceiveContact
    \/ ContactParse
    \/ ContactHoneypot
    \/ ContactSanitize
    \/ ContactValidate
    \/ ContactCompose
    \/ ContactSend
    \/ ContactRespond
    \/ ReceiveCareers
    \/ CareersParse
    \/ CareersHoneypot
    \/ CareersSanitize
    \/ CareersValidate
    \/ CareersCompose
    \/ CareersAttach
    \/ CareersSend
    \/ CareersRespond

Spec == Init /\ [][Next]_vars

(* ------------------------------------------------------------------ *)
(* sanitize as a function of its input                                 *)
(* ------------------------------------------------------------------ *)

\* The longest input string of SanSpec.
MaxLen == 4

SanAlphabet == {"<", ">", "a", " ", "\n", "\r"}

RECURSIVE StringsUpTo(_)
StringsUpTo(n) ==
    IF n = 0 THEN { <<>> }
    ELSE LET shorter == StringsUpTo(n - 1)
         IN  shorter \cup { Append(s, c) : s \in { x \in shorter : Len(x) = n - 1 },
                                            c \in SanAlphabet }

SanInit ==
    /\ HandlerInit
    /\ fnIn \in StringsUpTo(MaxLen)
    /\ fnMax \in 0..MaxLen
    /\ fnOut = <<>>
    /\ fnPc = "ready"
    /\ ConcIdle
    /\ ClientIdle

\* sanitize(str, maxLen) of the contact route
ApplySanitizeContact ==
    /\ fnPc = "ready"
    /\ fnOut' = sanitizeContact(Str(fnIn), fnMax)
    /\ fnPc' = "contact"
    /\ UNCHANGED <<fnIn, fnMax, handlerVars, concVars, clientVars>>

\* sanitize(val, maxLen) of the careers route
ApplySanitizeCareers ==
    /\ fnPc = "ready"
    /\ fnOut' = sanitizeCareers(Str(fnIn), fnMax)
    /\ fnPc' = "careers"
    /\ UNCHANGED <<fnIn, fnMax, handlerVars, concVars, clientVars>>

SanNext == ApplySanitizeContact \/ ApplySanitizeCareers

SanSpec == SanInit /\ [][SanNext]_vars

(* ------------------------------------------------------------------ *)
(* Requests handled concurrently                                       *)
(*                                                                     *)
(* Every invocation of POST has its own local variables; the module-   *)
(* level transporter of each route is shared.  An invocation runs      *)
(* without interruption from one await to the next: the awaits are     *)
(* req.json() / req.formData(), cvFile.arrayBuffer() and               *)
(* transporter.sendMail().                                             *)
(* ------------------------------------------------------------------ *)

NumRequests == 2

RequestIds == 1..NumRequests

ConcContactRequests ==
    { q \in ContactRequests :
        /\ q.parse \in {"malformed", "null", "object"}
        /\ q.parse = "object" =>
             /\ q.website \in {NotAString, Str(<<"x">>)}
             /\ q.website # NotAString => q.name = Str(<<"A">>)
             /\ q.name \in {Str(<<"A">>), Str(<<"A","l","e","x"," ","L","e","e">>)}
             /\ q.email \in {Str(<<"a","l","e","x","@","b","r","a","n","d",".","c","o","m">>),
                              Str(<<"a","'","b","&","c","@","x",".","i","o">>)}
             /\ q.company = NotAString
             /\ q.service = NotAString
             /\ q.message = Str(<<"W","e","'","d"," ","l","i","k","e"," ","a"," ","q","u","o",
                                   "t","e"," ","f","o","r"," ","b","r","a","n","d","i","n","g",
                                   " ","w","o","r","k",".">>) }

ConcCareersRequests ==
    { q \in CareersRequests :
        q.parse = "form" =>
             /\ q.website = NotAString
             /\ q.name \in {Str(<<"A">>), Str(<<"O","'","N","e","i","l"," ","<","b">>)}
             /\ q.email = Str(<<"a","'","b","&","c","@","x",".","i","o">>)
             /\ q.portfolio = NotAString
             /\ q.linkedin = NotAString
             /\ q.github = NotAString
             /\ q.experience = Str(<<"F","r","e","s","h","e","r">>)
             /\ Len(q.about.v) > 10
             /\ q.jobTitle = NotAString
             /\ q.cv.kind # "string"
             /\ q.cv.type # "text/plain"
             /\ q.cv.kind = "file" => q.cv.size \in {1, 2}
             /\ q.name = Str(<<"A">>) => q.cv = NoFile }

\* The local variables of an invocation that has not started.
NewHandler ==
    [pc |-> "idle", endpoint |-> "none", request |-> NoRequest, fields |-> NoFields,
     cvFile |-> NoFile, errors |-> NoErrors, mail |-> NoMail, sendError |-> "",
     response |-> NoResponse]

\* const name = sanitize(body.name, 120) ... of the two handlers
SanitizedFields(ep, q) ==
    IF ep = "contact"
    THEN [name    |-> sanitizeContact(q.name, 120),
          email   |-> sanitizeContact(q.email, 254),
          company |-> sanitizeContact(q.company, 120),
          service |-> sanitizeContact(q.service, 60),
          message |-> sanitizeContact(q.message, 4000)]
    ELSE [name       |-> sanitizeCareers(q.name, 120),
          email      |-> sanitizeCareers(q.email, 254),
          portfolio  |-> sanitizeCareers(q.portfolio, 512),
          linkedin   |-> sanitizeCareers(q.linkedin, 512),
          github     |-> sanitizeCareers(q.github, 512),
          experience |-> sanitizeCareers(q.experience, 60),
          about      |-> sanitizeCareers(q.about, 4000),
          jobTitle   |-> sanitizeCareers(q.jobTitle, 120)]

\* The text of the 500 response of each route.
GenericError(ep) ==
    IF ep = "contact" THEN "Unable to process request at this time."
    ELSE "Unable to process your application at this time. Please try again."

\* cvAttachment
CvAttachment(cv) ==
    IF cv = NoFile THEN <<>>
    ELSE << [filename |-> cv.name, content |-> cv.content, contentType |-> cv.type] >>

\* The handler from the body it awaited to its next await or its return.
AfterBody(h) ==
    IF h.request.parse = "malformed"
    THEN [h EXCEPT !.pc = "Done", !.response = ErrorResponse(400, "Invalid request body.")]
    ELSE IF h.endpoint = "contact" /\ h.request.parse = "null"
    THEN [h EXCEPT !.pc = "Threw"]
    ELSE IF Truthy(h.request.website)
    THEN [h EXCEPT !.pc = "Done", !.response = OkResponse]
    ELSE LET f    == SanitizedFields(h.endpoint, h.request)
             cv   == IF h.endpoint = "careers" THEN CvFileOf(h.request.cv) ELSE NoFile
             errs == IF h.endpoint = "contact" THEN ContactErrors(f) ELSE CareersErrors(f, cv)
             v    == [h EXCEPT !.fields = f, !.cvFile = cv, !.errors = errs]
         IN  IF HasErrors(errs)
             THEN [v EXCEPT !.pc = "Done", !.response = ErrorsResponse(errs)]
             ELSE IF h.endpoint = "contact"
             THEN [v EXCEPT !.mail = ContactMail(f), !.pc = "AwaitSend"]
             ELSE [v EXCEPT !.mail = CareersMail(f, cv), !.pc = "AwaitFile"]

\* What a call of transporter.sendMail leaves with the transporter: the
\* message, the invocation that awaits it, and the outcome once it settled.
Envelope(r, m) == [id |-> r, message |-> m, settled |-> FALSE, error |-> ""]

\* A mutant of Pending: an invocation is resumed by any call that settles.
PendingOfAnyone(box, r) == CHOOSE i \in 1..Len(box) : ~box[i].settled

\* The call of sendMail whose promise invocation r awaits.
Pending(box, r) == CHOOSE i \in 1..Len(box) : box[i].id = r /\ ~box[i].settled

ConcInit ==
    /\ handlers = [r \in RequestIds |-> NewHandler]
    /\ outbox = <<>>

\* A request arrives and its handler awaits the body.
Arrive(r) ==
    /\ handlers[r].pc = "idle"
    /\ \E ep \in {"contact", "careers"} :
         \E q \in (IF ep = "contact" THEN ConcContactRequests ELSE ConcCareersRequests) :
            handlers' = [handlers EXCEPT ![r] =
                            [@ EXCEPT !.pc = "AwaitBody", !.endpoint = ep, !.request = q]]
    /\ UNCHANGED <<outbox, handlerVars, fnVars, clientVars>>

\* The body is there: sanitize, validate, compose; the contact
\* handler calls sendMail, the careers handler cvFile.arrayBuffer().
BodySettles(r) ==
    /\ handlers[r].pc = "AwaitBody"
    /\ handlers' = [handlers EXCEPT ![r] = AfterBody(@)]
    /\ outbox' = IF handlers'[r].pc = "AwaitSend"
                 THEN Append(outbox, Envelope(r, handlers'[r].mail))
                 ELSE outbox
    /\ UNCHANGED <<handlerVars, fnVars, clientVars>>

\* The bytes of the cv are there, or reading them threw; the careers
\* handler calls sendMail with the attachment.
FileSettles(r) ==
    /\ handlers[r].pc = "AwaitFile"
    /\ IF handlers[r].cvFile.readable
       THEN /\ handlers' = [handlers EXCEPT ![r].pc = "AwaitSend"]
            /\ outbox' = Append(outbox,
                    Envelope(r, [handlers[r].mail EXCEPT
                                    !.attachments = CvAttachment(handlers[r].cvFile)]))
       ELSE /\ handlers' = [handlers EXCEPT ![r].pc = "Threw"]
            /\ UNCHANGED outbox
    /\ UNCHANGED <<handlerVars, fnVars, clientVars>>

\* sendMail settles: the handler answers 200, or 500 from its catch block.
SendSettles(r) ==
    /\ handlers[r].pc = "AwaitSend"
    /\ \E e \in SmtpErrors \cup {""} :
         /\ outbox' = [outbox EXCEPT ![Pending(outbox, r)] =
                          [@ EXCEPT !.settled = TRUE, !.error = e]]
         /\ handlers' = [handlers EXCEPT ![r] =
                [@ EXCEPT !.pc = "Done",
                          !.sendError = e,
                          !.response = IF e # ""
                                       THEN ErrorResponse(500, GenericError(handlers[r].endpoint))
                                       ELSE OkResponse]]
    /\ UNCHANGED <<handlerVars, fnVars, clientVars>>

ConcNext ==
    \E r \in RequestIds :
        \/ Arrive(r)
        \/ BodySettles(r)
        \/ FileSettles(r)
        \/ SendSettles(r)

\* No request has arrived; the sequential handler and the form are not used.
ConcSpecInit == HandlerInit /\ FnIdle /\ ClientIdle /\ ConcInit

ConcSpec == ConcSpecInit /\ [][ConcNext]_vars

(* ------------------------------------------------------------------ *)
(* The form components: Contact.tsx and Careers.tsx                    *)
(*                                                                     *)
(* One mounted component.  Its state is the useState values; status is *)
(* the value the last setStatus wrote and seenStatus the status of the *)
(* last committed render, which handleSubmit and the view read.  An    *)
(* event of the user is handled and rendered in one step; what the     *)
(* continuation of a fetch sets is rendered by a later step.           *)
(* ------------------------------------------------------------------ *)

MaxPosts == 2

\* JOBS: the ids of the first two jobs, and the title of each
JobIds == {1, 2}

JobTitle(j) ==
    CASE j = 1 -> <<"Performance Marketing Specialist">>
      [] j = 2 -> <<"Social Media Strategist">>
      [] j = 3 -> <<"Video Editor & Content Producer">>
      [] OTHER -> <<>>

EMPTY_FORM(p) ==
    IF p = "contact"
    THEN [name |-> <<>>, email |-> <<>>, company |-> <<>>, service |-> <<>>, message |-> <<>>]
    ELSE [name |-> <<>>, email |-> <<>>, portfolio |-> <<>>, linkedin |-> <<>>,
          github |-> <<>>, experience |-> <<>>, about |-> <<>>]

\* What the user leaves in the fields after editing them: a form that both
\* validations accept, and the same with a name of one letter, a name that
\* is markup, no service or (Careers) a portfolio that is no URL.
ValidForm(p) ==
    IF p = "contact"
    THEN [name |-> <<"A","l">>, email |-> <<"a","l","@","x",".","i","o">>,
          company |-> <<>>, service |-> <<"O","t","h","e","r">>,
          message |-> <<"H","e","l","l","o"," ","t","e","a","m","!">>]
    ELSE [name |-> <<"A","l">>, email |-> <<"a","l","@","x",".","i","o">>,
          portfolio |-> <<"h","t","t","p","s",":","/","/","a",".","i","o">>,
          linkedin |-> <<>>, github |-> <<>>,
          experience |-> <<"F","r","e","s","h","e","r">>,
          about |-> <<"H","e","l","l","o"," ","t","e","a","m","!">>]

FormStates(p) ==
    { ValidForm(p),
      [ValidForm(p) EXCEPT !.name = <<"A">>],
      [ValidForm(p) EXCEPT !.name = <<"<","b",">">>] }
    \cup (IF p = "contact" THEN { [ValidForm(p) EXCEPT !.service = <<>>] }
          ELSE { [ValidForm(p) EXCEPT !.portfolio = <<"a",".","i","o">>] })

\* The files the user picks in the file input.
PickableFiles ==
    { File(<<"c","v",".","p","d","f">>, "application/pdf", 0, "", TRUE),
      File(<<"c","v",".","p","d","f">>, "application/pdf", 1, "bytes-1", TRUE),
      File(<<"c","v",".","t","x","t">>, "text/plain", MAX_FILE_BYTES + 1, "bytes-5", TRUE) }

\* validate(data) of Contact
validateContact(data) ==
    LET e1 == IF Trim(data.name) = <<>> \/ Len(Trim(data.name)) < 2
              THEN Put(NoErrors, "name", "Please enter your name.")
              ELSE NoErrors
        e2 == IF Trim(data.email) = <<>> \/ ~EMAIL_RE_test(Trim(data.email))
              THEN Put(e1, "email", "Please enter a valid email address.")
              ELSE e1
        e3 == IF Trim(data.message) = <<>> \/ Len(Trim(data.message)) < 10
              THEN Put(e2, "message", "Please tell us more (at least 10 characters).")
              ELSE e2
    IN  e3

\* validate(data, file) of Careers
validateCareers(data, file) ==
    LET e1 == IF Trim(data.name) = <<>> \/ Len(Trim(data.name)) < 2
              THEN Put(NoErrors, "name", "Please enter your full name.")
              ELSE NoErrors
        e2 == IF Trim(data.email) = <<>> \/ ~EMAIL_RE_test(Trim(data.email))
              THEN Put(e1, "email", "Please enter a valid email address.")
              ELSE e1
        e3 == IF data.portfolio # <<>> /\ ~isValidUrl(data.portfolio)
              THEN Put(e2, "portfolio", "Please enter a valid URL (e.g. https://...).")
              ELSE e2
        e4 == IF data.linkedin # <<>> /\ ~isValidUrl(data.linkedin)
              THEN Put(e3, "linkedin", "Please enter a valid LinkedIn URL.")
              ELSE e3
        e5 == IF data.github # <<>> /\ ~isValidUrl(data.github)
              THEN Put(e4, "github", "Please enter a valid GitHub URL.")
              ELSE e4
        e6 == IF data.experience = <<>>
              THEN Put(e5, "experience", "Please select your experience level.")
              ELSE e5
        e7 == IF Trim(data.about) = <<>> \/ Len(Trim(data.about)) < 10
              THEN Put(e6, "about",
                       "Please tell us a bit about yourself (at least 10 characters).")
              ELSE e6
        e8 == IF file = NoFile THEN Put(e7, "file", "Please upload your CV.") ELSE e7
    IN  e8

\* The body of the POST: JSON.stringify({...}) of Contact, the FormData of Careers
Payload(p, data, file, job, hp) ==
    IF p = "contact"
    THEN ContactBody("object", Str(hp), Str(Trim(data.name)), Str(Trim(data.email)),
                     Str(Trim(data.company)), Str(data.service), Str(Trim(data.message)))
    ELSE CareersForm("form", NotAString, Str(Trim(data.name)), Str(Trim(data.email)),
                     Str(Trim(data.portfolio)), Str(Trim(data.linkedin)),
                     Str(Trim(data.github)), Str(data.experience), Str(Trim(data.about)),
                     Str(JobTitle(job)), file)

\* What fetch settles with: a rejection (no response), or the response of
\* the route to this body; an exception that escapes the handler is
\* answered 500 by the framework.
NetworkError == [NoResponse EXCEPT !.error = "fetch failed"]

ServerAnswers(p, body) ==
    LET h == AfterBody([NewHandler EXCEPT !.endpoint = p, !.request = body])
    IN  IF h.pc = "Done" THEN { h.response }
        ELSE IF h.pc = "Threw" \/ (h.pc = "AwaitFile" /\ ~h.cvFile.readable)
        THEN { ErrorResponse(500, "Internal Server Error") }
        ELSE { OkResponse, ErrorResponse(500, GenericError(p)) }

ApiError == Put(NoErrors, "api", "Something went wrong. Please try again or email us directly.")

\* The form is in the rendered view: Contact shows it unless status is
\* success, Careers shows it for a selected job unless status is success.
FormVisible ==
    IF page = "contact" THEN seenStatus # "success"
    ELSE selectedJob # 0 /\ seenStatus # "success"

ClientInit ==
    /\ page \in {"contact", "careers"}
    /\ selectedJob = 0
    /\ formData = EMPTY_FORM(page)
    /\ formErrors = NoErrors
    /\ status = "idle"
    /\ seenStatus = "idle"
    /\ selectedFile = NoFile
    /\ fileError = ""
    /\ flights = <<>>
    /\ posts = 0
    /\ succeeded = -1
    /\ settled = NoResponse

\* setField(key, value) for every field the user changes, taken as one
\* step: each changed field is set and its error cleared
setField ==
    /\ FormVisible
    /\ \E f \in FormStates(page) :
         /\ f # formData
         /\ formData' = f
         /\ formErrors' = [k \in { x \in DOMAIN formErrors :
                                     x \notin DOMAIN f \/ f[x] = formData[x] } |->
                              formErrors[k]]
    /\ seenStatus' = status
    /\ UNCHANGED <<page, selectedJob, status, selectedFile, fileError, flights,
                   posts, succeeded, settled, handlerVars, fnVars, concVars>>

\* handleFileChange: a file of an allowed type and size is kept, another
\* one sets fileError
handleFileChange ==
    /\ page = "careers" /\ FormVisible
    /\ \E file \in PickableFiles \cup {NoFile} :
         IF file = NoFile
         THEN fileError' = "" /\ selectedFile' = NoFile
         ELSE IF file.type \notin ALLOWED_MIME
         THEN fileError' = "Only PDF, DOC, or DOCX files are allowed." /\ selectedFile' = NoFile
         ELSE IF file.size > MAX_FILE_BYTES
         THEN fileError' = "File must be 5 MB or smaller." /\ selectedFile' = NoFile
         ELSE fileError' = "" /\ selectedFile' = file
    /\ seenStatus' = status
    /\ UNCHANGED <<page, selectedJob, formData, formErrors, status, flights,
                   posts, succeeded, settled, handlerVars, fnVars, concVars>>

\* The value of the hidden website input when the form is submitted: empty
\* for a person, filled by a bot.
HoneypotValues == { <<>>, <<"x">> }

\* A mutant of honeypotFilled: the hidden input is never looked at.
honeypotIgnored(website) == FALSE

\* if (honeypot) of Careers: the hidden input has a value
honeypotFilled(website) == website # <<>>

\* validate of the mounted component
validate == IF page = "contact" THEN validateContact(formData)
            ELSE validateCareers(formData, selectedFile)

\* if (status === "submitting") return
InFlightGuard == seenStatus = "submitting"

\* handleSubmit up to the call of fetch: the guard, the honeypot check of
\* Careers, the validation, setStatus("submitting") and the POST
handleSubmit(website) ==
    /\ FormVisible
    /\ IF InFlightGuard
       THEN UNCHANGED clientVars
       ELSE IF page = "careers" /\ honeypotFilled(website)
       THEN /\ status' = "success"
            /\ seenStatus' = "success"
            /\ succeeded' = selectedJob
            /\ settled' = NoResponse
            /\ UNCHANGED <<page, selectedJob, formData, formErrors, selectedFile, fileError,
                           flights, posts>>
       ELSE IF HasErrors(validate)
       THEN /\ formErrors' = validate
            /\ seenStatus' = status
            /\ UNCHANGED <<page, selectedJob, formData, status, selectedFile, fileError,
                           flights, posts, succeeded, settled>>
       ELSE /\ posts < MaxPosts
            /\ status' = "submitting"
            /\ seenStatus' = "submitting"
            /\ formErrors' = NoErrors
            /\ flights' = Append(flights,
                    [job  |-> selectedJob, beforeReset |-> FALSE,
                     body |-> Payload(page, formData, selectedFile, selectedJob, website)])
            /\ posts' = posts + 1
            /\ succeeded' = -1
            /\ settled' = NoResponse
            /\ UNCHANGED <<page, selectedJob, formData, selectedFile, fileError>>
    /\ UNCHANGED <<handlerVars, fnVars, concVars>>

\* A mutant of CarriesFieldErrors: the errors of a response are never read.
CarriesNoFieldErrors(res) == FALSE

\* data.errors of a response that is not ok is kept as the field errors:
\* Contact looks at every response that is not ok, Careers at 422 only.
CarriesFieldErrors(res) ==
    /\ ~res.ok
    /\ page = "careers" => res.status = 422
    /\ HasErrors(res.errors)

RemoveAt(s, i) == SubSeq(s, 1, i - 1) \o SubSeq(s, i + 1, Len(s))

\* handleSubmit after the await of fetch, for the POST at place i of flights
\* and what its fetch settled with
AfterFetch(i, res) ==
    /\ flights' = RemoveAt(flights, i)
    /\ settled' = res
    /\ IF res = NetworkError
       THEN status' = "error" /\ formErrors' = ApiError /\ succeeded' = -1
       ELSE IF CarriesFieldErrors(res)
       THEN status' = "idle" /\ formErrors' = res.errors /\ succeeded' = -1
       ELSE IF ~res.ok
       THEN status' = "error" /\ formErrors' = ApiError /\ succeeded' = -1
       ELSE /\ status' = "success"
            /\ succeeded' = flights[i].job
            /\ UNCHANGED formErrors

\* The fetch of a POST settles, rejected or with a response of the route,
\* and handleSubmit goes on after its await.
FetchSettles ==
    /\ \E i \in 1..Len(flights) :
         \/ AfterFetch(i, NetworkError)
         \/ \E res \in ServerAnswers(page, flights[i].body) : AfterFetch(i, res)
    /\ UNCHANGED <<page, selectedJob, formData, seenStatus, selectedFile, fileError,
                   posts, handlerVars, fnVars, concVars>>

\* React commits what the continuation of a fetch has set.
Render ==
    /\ seenStatus # status
    /\ seenStatus' = status
    /\ UNCHANGED <<page, selectedJob, formData, formErrors, status, selectedFile, fileError,
                   flights, posts, succeeded, settled, handlerVars, fnVars, concVars>>

\* resetForm reaches no request: the POSTs in flight stay in flight.  Each
\* is marked as started before this reset, a record of the past that no
\* step of the component reads.
StartedBeforeReset(fs) == [i \in 1..Len(fs) |-> [fs[i] EXCEPT !.beforeReset = TRUE]]

\* A mutant of resetForm: the selected file is kept.
resetFormKeepsFile ==
    /\ formData' = EMPTY_FORM(page)
    /\ formErrors' = NoErrors
    /\ status' = "idle"
    /\ fileError' = ""
    /\ UNCHANGED selectedFile

resetForm ==
    /\ formData' = EMPTY_FORM(page)
    /\ formErrors' = NoErrors
    /\ status' = "idle"
    /\ selectedFile' = NoFile
    /\ fileError' = ""

\* openJob(job), from a card of the job list
openJob ==
    /\ page = "careers" /\ selectedJob = 0
    /\ resetForm
    /\ \E job \in JobIds : selectedJob' = job
    /\ seenStatus' = "idle"
    /\ succeeded' = -1
    /\ settled' = NoResponse
    /\ flights' = StartedBeforeReset(flights)
    /\ UNCHANGED <<page, posts, handlerVars, fnVars, concVars>>

\* goBack, from the job view or its success view
goBack ==
    /\ page = "careers" /\ selectedJob # 0
    /\ resetForm
    /\ selectedJob' = 0
    /\ seenStatus' = "idle"
    /\ succeeded' = -1
    /\ settled' = NoResponse
    /\ flights' = StartedBeforeReset(flights)
    /\ UNCHANGED <<page, posts, handlerVars, fnVars, concVars>>

\* "Send another message" of the Contact success view
SendAnother ==
    /\ page = "contact" /\ seenStatus = "success"
    /\ status' = "idle"
    /\ formData' = EMPTY_FORM(page)
    /\ formErrors' = NoErrors
    /\ seenStatus' = "idle"
    /\ succeeded' = -1
    /\ settled' = NoResponse
    /\ UNCHANGED <<page, selectedJob, selectedFile, fileError, flights, posts,
                   handlerVars, fnVars, concVars>>

ClientNext ==
    \/ setField
    \/ handleFileChange
    \/ \E website \in HoneypotValues : handleSubmit(website)
    \/ FetchSettles
    \/ Render
    \/ openJob
    \/ goBack
    \/ SendAnother

\* The component has mounted; the handlers of the server are reached only
\* through ServerAnswers.
ClientSpecInit == HandlerInit /\ FnIdle /\ ConcIdle /\ ClientInit

ClientSpec == ClientSpecInit /\ [][ClientNext]_vars

\* The promise of every fetch settles, with a response or with a rejection,
\* and its continuation runs: no POST stays in flight for ever.
ClientLiveSpec == ClientSpecInit /\ [][ClientNext]_vars /\ WF_vars(FetchSettles)

(* ------------------------------------------------------------------ *)
(* Properties                                                          *)
(* ------------------------------------------------------------------ *)

\* The handler has executed the step.
Did(step) == \E i \in 1..Len(steps) : steps[i] = step

\* The request's body parsed.
BodyParsed == endpoint # "none" /\ request.parse # "malformed"

\* The hidden website field of the request is a non-empty string.
WebsiteFilled ==
    /\ BodyParsed
    /\ request.website.isString
    /\ Len(request.website.v) > 0

\* The handler is over: it returned a response or an exception left it.
Finished == pc \in {"Responded", "Threw"}

\* C1: in both endpoints a request whose body parses and whose website
\* field is non-empty is answered {ok: true} with status 200 right after the
\* honeypot check, and sendMail is never invoked for it.
C1_HoneypotSucceedsWithoutMail ==
    WebsiteFilled =>
        /\ sent = <<>>
        /\ pc \in {"Received", "Parsed", "Responded"}
        /\ pc = "Responded" => response = [status |-> 200, ok |-> TRUE, error |-> "",
                                           errors |-> NoErrors]

\* A contact bot request with an invalid name and no email was answered.
C1_Witness ==
    /\ endpoint = "contact"
    /\ WebsiteFilled
    /\ pc = "Responded"
    /\ request.name = Str(<<"A">>)
    /\ ~request.email.isString

\* C2: in both endpoints sendMail has been invoked, or a message composed,
\* only after validation computed an empty error map for the request.
C2_DispatchOnlyWithoutErrors ==
    (sent # <<>> \/ mail # NoMail) => (Did("validate") /\ DOMAIN errors = {})

\* A careers request went through validation without an error and was sent.
C2_Witness ==
    /\ endpoint = "careers"
    /\ Did("validate")
    /\ DOMAIN errors = {}
    /\ Len(sent) = 1

HtmlEntities ==
    { <<"&","a","m","p",";">>, <<"&","q","u","o","t",";">>, <<"&","#","3","9",";">>,
      <<"&","l","t",";">>, <<"&","g","t",";">> }

\* An HTML entity starts at position i of h.
EntityAt(h, i) ==
    \E e \in HtmlEntities :
        /\ i + Len(e) - 1 <= Len(h)
        /\ SubSeq(h, i, i + Len(e) - 1) = e

\* No character of an interpolated value is a bare <, >, ", ' or &; the
\* text of the template is made of elements longer than one character.
HtmlSafe(h) ==
    \A i \in 1..Len(h) :
        /\ h[i] \notin {"<", ">", "\"", "'"}
        /\ h[i] = "&" => EntityAt(h, i)

\* C3: in both pipelines the composed HTML body holds no unescaped <, >, &,
\* " or ' that comes from a user-supplied value.
C3_HtmlBodyEscaped == mail # NoMail => HtmlSafe(mail.html)

\* The contact half of C3, which the code keeps.
C3_ContactHtmlBodyEscaped == (endpoint = "contact" /\ mail # NoMail) => HtmlSafe(mail.html)

\* C4: every request ends in one of the four responses, 400 {error},
\* 200 {ok: true}, 422 {errors} or 500 {error}; no exception leaves the handler.
C4_AlwaysOneOfFourResponses ==
    /\ pc # "Threw"
    /\ pc = "Responded" =>
         \/ response.status = 400 /\ response.error # ""
         \/ response = OkResponse
         \/ response.status = 422 /\ DOMAIN response.errors # {}
         \/ response.status = 500 /\ response.error # ""

\* The careers half of the exceptions of C4: a cv file that cannot be read.
C4_NoExceptionInCareers == endpoint = "careers" => pc # "Threw"

\* C5 as stated: in either pipeline a failed send is answered 500 with
\* exactly {error: "Unable to process request at this time."}.
C5_SameMessageInBothPipelines ==
    (pc = "Responded" /\ sendError # "") =>
        response = ErrorResponse(500, "Unable to process request at this time.")

\* C5 amended: a failed send is answered 500 with the fixed message of the
\* route, "Unable to process request at this time." for contact and "Unable
\* to process your application at this time. Please try again." for careers,
\* and the body holds no text of the transport's exception.
C5_GenericErrorPerPipeline ==
    (Did("send") /\ sendError # "") =>
        /\ pc \in {"Dispatched", "Responded"}
        /\ pc = "Responded" =>
             /\ response.status = 500
             /\ ~response.ok
             /\ response.errors = NoErrors
             /\ response.error \notin SmtpErrors
             /\ endpoint = "contact" =>
                    response.error = "Unable to process request at this time."
             /\ endpoint = "careers" =>
                    response.error =
                        "Unable to process your application at this time. Please try again."

\* A careers send failed and the request was answered.
C5_Witness ==
    /\ endpoint = "careers"
    /\ pc = "Responded"
    /\ sendError \in SmtpErrors
    /\ Len(sent) = 1

\* C6: in both endpoints a body that does not parse is answered 400 with an
\* {error} body by the parse step itself, and no later step runs.
C6_ParseFailureShortCircuits ==
    (endpoint # "none" /\ request.parse = "malformed" /\ pc # "Received") =>
        /\ pc = "Responded"
        /\ steps = <<"parse">>
        /\ response.status = 400
        /\ response.error # ""
        /\ fields = NoFields
        /\ errors = NoErrors
        /\ mail = NoMail
        /\ sent = <<>>

\* A malformed careers request was answered.
C6_Witness ==
    /\ endpoint = "careers"
    /\ request.parse = "malformed"
    /\ pc = "Responded"
    /\ response.status = 400

\* The fields whose rule of the validation table fails for the request,
\* read off the raw request: name at least 2 characters, email of the
\* pattern, message / about at least 10 characters, service and experience in
\* their catalogues, the three links http(s) URLs, the cv a non-empty file of
\* an allowed media type of at most 5 MiB.
ContactFailing ==
    LET san(v, n) == sanitizeContact(v, n)
    IN  { k \in {"name", "email", "message", "service"} :
            \/ k = "name" /\ Len(san(request.name, 120)) < 2
            \/ k = "email" /\ ~EMAIL_RE_test(san(request.email, 254))
            \/ k = "message" /\ Len(san(request.message, 4000)) < 10
            \/ k = "service" /\ san(request.service, 60) \notin ALLOWED_SERVICES \cup {<<>>} }

CareersFailing ==
    LET san(v, n) == sanitizeCareers(v, n)
    IN  { k \in {"name", "email", "portfolio", "linkedin", "github", "experience", "about",
                 "file"} :
            \/ k = "name" /\ Len(san(request.name, 120)) < 2
            \/ k = "email" /\ ~EMAIL_RE_test(san(request.email, 254))
            \/ k = "portfolio" /\ ~isValidUrl(san(request.portfolio, 512))
            \/ k = "linkedin" /\ ~isValidUrl(san(request.linkedin, 512))
            \/ k = "github" /\ ~isValidUrl(san(request.github, 512))
            \/ k = "experience" /\ san(request.experience, 60) \notin ALLOWED_EXPERIENCE
            \/ k = "about" /\ Len(san(request.about, 4000)) < 10
            \/ k = "file" /\ \/ request.cv.kind # "file"
                             \/ request.cv.size = 0
                             \/ request.cv.type \notin ALLOWED_MIME
                             \/ request.cv.size > 5242880 }

FailingFields == IF endpoint = "contact" THEN ContactFailing ELSE CareersFailing

\* C7: every request that is not a bot and has a failing rule is answered
\* 422 with an errors map whose keys are exactly the fields whose rule fails.
C7_AllFailingFieldsReported ==
    (BodyParsed /\ ~WebsiteFilled /\ Finished /\ FailingFields # {}) =>
        /\ response.status = 422
        /\ DOMAIN response.errors = FailingFields

\* C7 for the bodies that are JSON objects or forms.
C7_AllFailingFieldsReportedOfObjects ==
    (BodyParsed /\ request.parse # "null" /\ ~WebsiteFilled /\ Finished
        /\ FailingFields # {}) =>
        /\ response.status = 422
        /\ DOMAIN response.errors = FailingFields

\* C8: a contact request that is not a bot, passes validation and is sent
\* without a transport error is answered 200 {ok: true}; the one message
\* handed to sendMail has replyTo = the sanitized email of the request and
\* to = the contact inbox.
C8_ContactSuccess ==
    (endpoint = "contact" /\ Did("send") /\ sendError = "") =>
        /\ Len(sent) = 1
        /\ sent[1].replyTo = sanitizeContact(request.email, 254)
        /\ sent[1].to = <<"info@7zero.media">>
        /\ pc \in {"Dispatched", "Responded"}
        /\ pc = "Responded" => (response.status = 200 /\ response.ok)

\* The scenario of the specification: Alex Lee asks for a quote.
C8_Witness ==
    /\ endpoint = "contact"
    /\ pc = "Responded"
    /\ sendError = ""
    /\ request.name = Str(<<"A","l","e","x"," ","L","e","e">>)
    /\ request.email = Str(<<"a","l","e","x","@","b","r","a","n","d",".","c","o","m">>)
    /\ ~request.company.isString
    /\ Len(sent) = 1
    /\ sent[1].replyTo = <<"a","l","e","x","@","b","r","a","n","d",".","c","o","m">>
    /\ response.ok

\* C9: after the careers validation, a cv of an allowed media type and of
\* exactly 5,242,880 bytes has no file error, one of 5,242,881 bytes has the
\* file-size error, and a cv declared text/plain has a file error whatever
\* its size.
C9_AttachmentBoundary ==
    (endpoint = "careers" /\ Did("validate") /\ request.cv.kind = "file") =>
        /\ (request.cv.type \in ALLOWED_MIME /\ request.cv.size = 5242880) =>
               "file" \notin DOMAIN errors
        /\ (request.cv.type \in ALLOWED_MIME /\ request.cv.size = 5242881) =>
               /\ "file" \in DOMAIN errors
               /\ errors["file"] = "CV must be 5 MB or smaller."
        /\ request.cv.type = "text/plain" => "file" \in DOMAIN errors

\* A cv of exactly 5,242,880 bytes went through validation without an error.
C9_Witness ==
    /\ endpoint = "careers"
    /\ Did("validate")
    /\ request.cv.kind = "file"
    /\ request.cv.size = 5242880
    /\ DOMAIN errors = {}

\* s holds a "<" that a ">" follows: a substring of the form <...>.
HasTagLike(s) == \E i \in 1..Len(s) : \E j \in (i + 1)..Len(s) : s[i] = "<" /\ s[j] = ">"

\* C10: the output of sanitize, of either route, holds no "<" that a ">"
\* follows, whatever the input, nested or overlapping tags included.
C10_SanitizeLeavesNoTag == fnPc \in {"contact", "careers"} => ~HasTagLike(fnOut)

\* sanitize was applied to the nested "<<>>" and left the last ">".
C10_Witness ==
    /\ fnPc = "careers"
    /\ fnIn = <<"<", "<", ">", ">">>
    /\ fnOut = <<">">>

\* s has white space neither at its start nor at its end.
IsTrimmed(s) == s = <<>> \/ (s[1] \notin WS /\ s[Len(s)] \notin WS)

\* C11: the output of sanitize, of either route, is at most maxLen long and
\* has no leading and no trailing white space.
C11_SanitizeCutAndTrimmed ==
    fnPc \in {"contact", "careers"} => (Len(fnOut) <= fnMax /\ IsTrimmed(fnOut))

\* The two halves of C11 the code keeps: the length, and the start.
C11_SanitizeCutAndLeftTrimmed ==
    fnPc \in {"contact", "careers"} =>
        (Len(fnOut) <= fnMax /\ (fnOut # <<>> => fnOut[1] \notin WS))

\* s with every maximal run of CR and LF replaced by one space.
RECURSIVE CollapseNewlineRuns(_)
CollapseNewlineRuns(s) ==
    IF s = <<>> THEN <<>>
    ELSE IF s[1] \in {"\r", "\n"}
    THEN IF Len(s) > 1 /\ s[2] \in {"\r", "\n"}
         THEN CollapseNewlineRuns(Tail(s))
         ELSE <<" ">> \o CollapseNewlineRuns(Tail(s))
    ELSE <<s[1]>> \o CollapseNewlineRuns(Tail(s))

\* The input of sanitize has no tag character, no white space at either end
\* and is not longer than maxLen: only the CR/LF replacement can change it.
OnlyNewlinesToReplace ==
    /\ fnIn # <<>>
    /\ \A i \in 1..Len(fnIn) : fnIn[i] \notin {"<", ">"}
    /\ fnIn[1] \notin WS /\ fnIn[Len(fnIn)] \notin WS
    /\ Len(fnIn) <= fnMax

SanitizedName ==
    IF endpoint = "contact" THEN sanitizeContact(request.name, 120)
    ELSE sanitizeCareers(request.name, 120)

\* C13: in both pipelines a request that is not a bot and whose sanitized
\* name is shorter than 2 is answered with errors.name, and sendMail is not
\* invoked for it.
C13_ShortNameRejected ==
    (BodyParsed /\ ~WebsiteFilled /\ Len(SanitizedName) < 2) =>
        /\ sent = <<>>
        /\ Finished => (response.status = 422 /\ "name" \in DOMAIN response.errors)

\* C13 for the bodies that are JSON objects, JSON scalars or forms.
C13_ShortNameRejectedOfObjects ==
    (BodyParsed /\ request.parse # "null" /\ ~WebsiteFilled /\ Len(SanitizedName) < 2) =>
        /\ sent = <<>>
        /\ Finished => (response.status = 422 /\ "name" \in DOMAIN response.errors)

\* The sanitized email of the request, as the route of the request cuts it.
SanitizedEmail ==
    IF endpoint = "contact" THEN sanitizeContact(request.email, 254)
    ELSE sanitizeCareers(request.email, 254)

\* C14: the from and the to of every dispatched message are the configured
\* values of the route, whatever the request holds (so any two requests are
\* dispatched with the same from and to); replyTo is the sanitized email of
\* the request, and the sender is not the submitter's address.
C14_FixedSenderAndRecipient ==
    \A i \in 1..Len(sent) :
        /\ endpoint = "contact" =>
             /\ sent[i].from = <<"process.env.SMTP_FROM ?? \"7ZeroMedia\" <process.env.SMTP_USER>">>
             /\ sent[i].to = <<"info@7zero.media">>
        /\ endpoint = "careers" =>
             /\ sent[i].from = <<"process.env.SMTP_HR_FROM ?? \"7ZeroMedia Careers\" <process.env.SMTP_HR_USER>">>
             /\ sent[i].to = <<"hr@laneway.in">>
        /\ sent[i].replyTo = SanitizedEmail
        /\ sent[i].from # SanitizedEmail

\* A contact message went out for the submitter a'b&c@x.io.
C14_Witness ==
    /\ endpoint = "contact"
    /\ Len(sent) = 1
    /\ sent[1].replyTo = <<"a","'","b","&","c","@","x",".","i","o">>
    /\ sent[1].to = <<"info@7zero.media">>

\* The steps of a handler in the order of the state machine; attaching the
\* cv belongs to the careers dispatch.
StepOrder ==
    IF endpoint = "contact"
    THEN <<"parse", "honeypot", "sanitize", "validate", "compose", "send", "respond">>
    ELSE <<"parse", "honeypot", "sanitize", "validate", "compose", "attach", "send", "respond">>

\* s is a prefix of t.
IsPrefix(s, t) == Len(s) <= Len(t) /\ SubSeq(t, 1, Len(s)) = s

\* The steps run so far are the first steps of the order, none skipped,
\* repeated or out of place; a response came only after the honeypot check
\* of a bot, after a validation with errors, or after the dispatch; a bot is
\* never validated.
OrderAndExits ==
    /\ IsPrefix(steps, StepOrder)
    /\ pc = "Responded" =>
         \/ steps[Len(steps)] = "honeypot" /\ WebsiteFilled
         \/ steps[Len(steps)] = "validate" /\ DOMAIN errors # {}
         \/ steps[Len(steps)] = "respond"
    /\ WebsiteFilled => (~Did("validate") /\ (pc = "Responded" => response = OkResponse))

\* C15: a request whose body parses goes through the steps in the order of
\* the state machine, leaves it only to a response at one of the three exits,
\* and ends in Responded.
C15_OrderedStepsAndResponse ==
    BodyParsed => (OrderAndExits /\ (Finished => pc = "Responded"))

\* The order and the exits of C15 alone, which the code keeps.
C15_OrderedSteps == BodyParsed => OrderAndExits

\* The number of times the handler called sendMail.
SendCalls == Cardinality({ i \in 1..Len(steps) : steps[i] = "send" })

RECURSIVE SplitLines(_)
SplitLines(s) ==
    LET n == IndexFrom(s, "\n", 1)
    IN  IF n = 0 THEN <<s>>
        ELSE <<SubSeq(s, 1, n - 1)>> \o SplitLines(Suffix(s, n + 1))

\* The text that opens the line of a field in the plain-text body; for
\* contact the placeholder lines of company and service are one piece of text.
LabelField ==
    IF endpoint = "contact"
    THEN [x \in {"Name:     ", "Email:    ", "Company:  ", "Company:  [em dash]",
                 "Service:  ", "Service:  Not specified"} |->
            CASE x = "Name:     " -> "name"
              [] x = "Email:    " -> "email"
              [] x \in {"Company:  ", "Company:  [em dash]"} -> "company"
              [] OTHER -> "service"]
    ELSE [x \in {"Position: ", "Name:        ", "Email:       ", "Experience:  ",
                 "Portfolio:   ", "LinkedIn:    ", "GitHub:      "} |->
            CASE x = "Position: " -> "jobTitle"
              [] x = "Name:        " -> "name"
              [] x = "Email:       " -> "email"
              [] x = "Experience:  " -> "experience"
              [] x = "Portfolio:   " -> "portfolio"
              [] x = "LinkedIn:    " -> "linkedin"
              [] OTHER -> "github"]

IsFieldLine(l) == l # <<>> /\ l[1] \in DOMAIN LabelField

\* The fields that have a line in the text, in the order of their lines.
FieldsWithLine(text) ==
    LET ls == SelectSeq(SplitLines(text), IsFieldLine)
    IN  [i \in 1..Len(ls) |-> LabelField[ls[i][1]]]

\* Every field of the form that has a line in the layout, in order.
AllFieldLines ==
    IF endpoint = "contact" THEN <<"name", "email", "company", "service">>
    ELSE <<"jobTitle", "name", "email", "experience", "portfolio", "linkedin", "github">>

\* C17 as stated: every plain-text body has the line of every field, the
\* absent optional ones included, in the same order.
C17_EveryFieldLinePresent ==
    \A i \in 1..Len(sent) : FieldsWithLine(sent[i].text) = AllFieldLines

KeepsLine(k) == k \notin {"portfolio", "linkedin", "github"} \/ fields[k] # <<>>

\* l is a line of the text.
HasLine(text, l) == \E n \in 1..Len(SplitLines(text)) : SplitLines(text)[n] = l

\* C17 amended: the contact body always has the Name, Email, Company and
\* Service lines in this order, Company and Service with their placeholder
\* when absent; the careers body always has the Position (placeholder "Not
\* specified" when absent), Name, Email and Experience lines, and has the
\* Portfolio, LinkedIn and GitHub lines, in this order, only for the links
\* that were submitted: an absent link has no line.
C17_PlaceholderOrOmittedLines ==
    \A i \in 1..Len(sent) :
        /\ FieldsWithLine(sent[i].text) = SelectSeq(AllFieldLines, KeepsLine)
        /\ endpoint = "contact" =>
             /\ fields.company = <<>> <=> HasLine(sent[i].text, <<"Company:  [em dash]">>)
             /\ fields.service = <<>> <=> HasLine(sent[i].text, <<"Service:  Not specified">>)
        /\ endpoint = "careers" =>
             (fields.jobTitle = <<>> <=>
                 HasLine(sent[i].text, <<"Position: ", "Not specified">>))

\* A careers message went out for a submission without portfolio and job
\* title and with a GitHub link: its text has the Position line with the
\* placeholder, the GitHub line and no Portfolio or LinkedIn line.
C17_Witness ==
    /\ endpoint = "careers"
    /\ Len(sent) = 1
    /\ fields.portfolio = <<>>
    /\ fields.jobTitle = <<>>
    /\ HasLine(sent[1].text, <<"Position: ", "Not specified">>)
    /\ FieldsWithLine(sent[1].text) = <<"jobTitle", "name", "email", "experience", "github">>

\* The free-text value of the request: message or about.
FreeText == IF endpoint = "contact" THEN fields.message ELSE fields.about

Preamble ==
    IF endpoint = "contact" THEN <<"New contact inquiry received via 7ZeroMedia website.">>
    ELSE <<"New job application received via 7ZeroMedia website.">>

Footer ==
    IF endpoint = "contact"
    THEN <<"This email was sent automatically. Do not reply to this address.">>
    ELSE <<"This message was sent automatically from the 7ZeroMedia careers form.">>

\* The lines are: the preamble first, the field lines, then a blank line
\* somewhere before the free text, the free text, and the footer last.
PreambleFieldsBlankBodyFooter(text) ==
    LET ls == SplitLines(text)
    IN  /\ ls[1] = Preamble
        /\ ls[Len(ls)] = Footer
        /\ \E b \in 1..Len(ls) : \E k \in (b + 1)..(Len(ls) - 1) :
              /\ ls[b] = <<>>
              /\ ls[k] = FreeText
              /\ \A n \in 1..Len(ls) : IsFieldLine(ls[n]) => (1 < n /\ n < b)

\* C18: in both pipelines the plain-text body is the preamble, the field
\* lines, a blank line, the free text and the footer, in this order.
C18_BlankLineBeforeFreeText ==
    \A i \in 1..Len(sent) : PreambleFieldsBlankBodyFooter(sent[i].text)

\* The contact half of C18, which the code keeps.
C18_ContactBlankLineBeforeFreeText ==
    endpoint = "contact" => \A i \in 1..Len(sent) : PreambleFieldsBlankBodyFooter(sent[i].text)

\* sub occurs in h.
Contains(h, sub) ==
    \E i \in 1..(Len(h) - Len(sub) + 1) : SubSeq(h, i, i + Len(sub) - 1) = sub

\* The lines of the text that are the line of field k holding value v: the
\* label of k followed by v, or v alone for the free text.
LinesOfValue(text, k, v) ==
    LET ls == SplitLines(text)
    IN  { n \in 1..Len(ls) :
            IF k \in {"message", "about"} THEN ls[n] = v
            ELSE /\ IsFieldLine(ls[n])
                 /\ LabelField[ls[n][1]] = k
                 /\ Tail(ls[n]) = v }

\* The fields of the request that were submitted: their sanitized value is
\* not empty.
SubmittedFields == { k \in DOMAIN fields : fields[k] # <<>> }

\* Every submitted value is on exactly one line of the text, and its
\* HTML-escaped form is in the HTML body.
RoundTrip(m) ==
    \A k \in SubmittedFields :
        /\ Cardinality(LinesOfValue(m.text, k, fields[k])) = 1
        /\ Contains(m.html, escapeHtml(fields[k]))

\* C19: for every valid submission of either pipeline the plain-text body
\* holds each submitted value exactly once and the HTML body holds its
\* HTML-escaped form.
C19_RoundTrip == \A i \in 1..Len(sent) : RoundTrip(sent[i])

\* The contact half of C19, which the code keeps.
C19_ContactRoundTrip == endpoint = "contact" => \A i \in 1..Len(sent) : RoundTrip(sent[i])

\* The places of the text where v begins.
Occurrences(text, v) ==
    { i \in 1..(Len(text) - Len(v) + 1) : SubSeq(text, i, i + Len(v) - 1) = v }

\* The plain-text half of C19, which the code keeps in both pipelines: every
\* submitted value occurs in the text at exactly one place (a careers value
\* that holds a line break spans several lines of it).
C19_TextHoldsEachValueOnce ==
    \A i \in 1..Len(sent) : \A k \in SubmittedFields :
        Cardinality(Occurrences(sent[i].text, fields[k])) = 1

\* C20: every message the careers handler passes to sendMail has exactly one
\* attachment; its content type is one of the three allowed ones, the
\* uploaded file is at most 5,242,880 bytes, and filename, content type and
\* bytes are those of the uploaded cv file; a contact message has none.
C20_OneVerbatimAttachment ==
    \A i \in 1..Len(sent) :
        IF endpoint = "contact" THEN sent[i].attachments = <<>>
        ELSE /\ Len(sent[i].attachments) = 1
             /\ request.cv.kind = "file"
             /\ sent[i].attachments[1].contentType \in
                  {"application/pdf", "application/msword",
                   "application/vnd.openxmlformats-officedocument.wordprocessingml.document"}
             /\ request.cv.size <= 5242880
             /\ sent[i].attachments[1].filename = request.cv.name
             /\ sent[i].attachments[1].contentType = request.cv.type
             /\ sent[i].attachments[1].content = request.cv.content

\* A careers message went out with the largest allowed file attached.
C20_Witness ==
    /\ endpoint = "careers"
    /\ Len(sent) = 1
    /\ request.cv.size = 5242880
    /\ Len(sent[1].attachments) = 1
    /\ sent[1].attachments[1].content = "bytes-2"

\* The six values of the service catalogue.
ServiceCatalog ==
    { <<"M","a","r","k","e","t","i","n","g"," ","S","t","r","a","t","e","g","y">>,
      <<"B","r","a","n","d"," ","I","d","e","n","t","i","t","y">>,
      <<"C","o","n","t","e","n","t"," ","C","r","e","a","t","i","o","n">>,
      <<"F","i","l","m","i","n","g"," ","&"," ","P","r","o","d","u","c","t","i","o","n">>,
      <<"S","o","c","i","a","l"," ","M","e","d","i","a">>,
      <<"O","t","h","e","r">> }

\* C23: in the contact handler service is optional: an absent, non-string
\* or empty (after sanitization) service has no service error, and a
\* non-empty sanitized service has errors.service exactly when it is not one
\* of the six catalogue values; the error is answered with 422.
C23_ServiceOptionalOrInCatalog ==
    (endpoint = "contact" /\ Did("validate")) =>
        /\ (~request.service.isString \/ fields.service = <<>>) =>
              "service" \notin DOMAIN errors
        /\ fields.service # <<>> =>
              ("service" \in DOMAIN errors <=> fields.service \notin ServiceCatalog)
        /\ "service" \in DOMAIN errors =>
              /\ response.status = 422
              /\ response.errors.service = "Invalid service selection."

\* A request with a service of one blank was validated without any error,
\* and its message went out with the service placeholder.
C23_Witness ==
    /\ endpoint = "contact"
    /\ request.service = Str(<<" ">>)
    /\ Did("validate")
    /\ errors = NoErrors
    /\ Len(sent) = 1

HasLineBreak(s) == \E i \in 1..Len(s) : s[i] \in {"\n", "\r"}

\* C28: in both pipelines the subject and the replyTo of every dispatched
\* message hold no carriage return and no line feed.
C28_HeadersHaveNoLineBreak ==
    \A i \in 1..Len(sent) :
        ~HasLineBreak(sent[i].subject) /\ ~HasLineBreak(sent[i].replyTo)

\* The contact half of C28, which the code keeps.
C28_ContactHeadersHaveNoLineBreak ==
    endpoint = "contact" => \A i \in 1..Len(sent) :
        ~HasLineBreak(sent[i].subject) /\ ~HasLineBreak(sent[i].replyTo)

\* The replyTo half of C28, which the code keeps in both pipelines.
C28_ReplyToHasNoLineBreak == \A i \in 1..Len(sent) : ~HasLineBreak(sent[i].replyTo)

\* The file error of the careers validation, "" for none.
FileError == IF "file" \in DOMAIN errors THEN errors.file ELSE ""

\* C30: the careers attachment check reports one file error with a fixed
\* precedence: "required" for a missing entry, a non-file entry or a
\* zero-byte file; else the type error for a type that is not allowed,
\* whatever the size; the size error only for an allowed type above 5 MiB.
C30_FileErrorPrecedence ==
    (endpoint = "careers" /\ Did("validate")) =>
        FileError =
            CASE request.cv.kind # "file" \/ request.cv.size = 0 -> "A CV file is required."
              [] request.cv.kind = "file" /\ request.cv.size > 0
                 /\ request.cv.type \notin
                      {"application/pdf", "application/msword",
                       "application/vnd.openxmlformats-officedocument.wordprocessingml.document"}
                   -> "Only PDF, DOC, or DOCX files are accepted."
              [] OTHER -> IF request.cv.size > 5242880 THEN "CV must be 5 MB or smaller."
                          ELSE ""

\* A text/plain file above 5 MiB was answered with the type error.
C30_Witness ==
    /\ endpoint = "careers"
    /\ Did("validate")
    /\ request.cv.type = "text/plain"
    /\ request.cv.size > 5242880
    /\ response.status = 422
    /\ response.errors.file = "Only PDF, DOC, or DOCX files are accepted."

\* The calls of sendMail that invocation r made.
OwnEnvelopes(r) == { i \in 1..Len(outbox) : outbox[i].id = r }

\* The message the handler of route ep composes for request q alone.
MessageFor(ep, q) ==
    IF ep = "contact" THEN ContactMail(SanitizedFields(ep, q))
    ELSE [CareersMail(SanitizedFields(ep, q), CvFileOf(q.cv)) EXCEPT
             !.attachments = CvAttachment(CvFileOf(q.cv))]

\* The validation errors of request q alone.
ErrorsFor(ep, q) ==
    IF ep = "contact" THEN ContactErrors(SanitizedFields(ep, q))
    ELSE CareersErrors(SanitizedFields(ep, q), CvFileOf(q.cv))

\* The response to request q alone, given the envelopes of its own calls
\* of sendMail.
AnsweredFromOwn(r) ==
    LET h == handlers[r]
    IN  IF h.request.parse = "malformed"
        THEN h.response = ErrorResponse(400, "Invalid request body.") /\ OwnEnvelopes(r) = {}
        ELSE IF Truthy(h.request.website)
        THEN h.response = OkResponse /\ OwnEnvelopes(r) = {}
        ELSE IF HasErrors(ErrorsFor(h.endpoint, h.request))
        THEN /\ h.response = ErrorsResponse(ErrorsFor(h.endpoint, h.request))
             /\ OwnEnvelopes(r) = {}
        ELSE \E i \in OwnEnvelopes(r) :
                /\ outbox[i].settled
                /\ h.response = IF outbox[i].error # ""
                                THEN ErrorResponse(500, GenericError(h.endpoint))
                                ELSE OkResponse

\* Each request has at most one message with the transporter, the one
\* composed from its own body, and its response follows from its own body
\* and the outcome of its own call of sendMail.
OwnBodyOwnOutcome ==
    \A r \in RequestIds :
        /\ Cardinality(OwnEnvelopes(r)) <= 1
        /\ \A i \in OwnEnvelopes(r) :
              outbox[i].message = MessageFor(handlers[r].endpoint, handlers[r].request)
        /\ handlers[r].pc = "Done" => AnsweredFromOwn(r)

\* A step changes the local variables of one invocation only, and of the
\* transporter only the envelopes of that invocation.
OneInvocationPerStep ==
    \E r \in RequestIds :
        /\ \A s \in RequestIds \ {r} : handlers'[s] = handlers[s]
        /\ Len(outbox') >= Len(outbox)
        /\ \A i \in 1..Len(outbox) : outbox[i].id # r => outbox'[i] = outbox[i]
        /\ \A i \in (Len(outbox) + 1)..Len(outbox') : outbox'[i].id = r

\* C21: under every interleaving of the requests, the response and the
\* dispatched message of each request follow from its own body and its own
\* send outcome, and no step of a request changes a value of another one.
C21_RequestsIsolated == []OwnBodyOwnOutcome /\ [][OneInvocationPerStep]_vars

\* Two requests were handled interleaved: the second one's message was
\* handed over first and failed, the first one's went out, and each got the
\* answer of its own outcome.
C21_Witness ==
    /\ Len(outbox) = 2
    /\ outbox[1].id = 2 /\ outbox[1].error # ""
    /\ outbox[2].id = 1 /\ outbox[2].error = "" /\ outbox[2].settled
    /\ handlers[1].pc = "Done" /\ handlers[1].response = OkResponse
    /\ handlers[2].pc = "Done" /\ handlers[2].response.status = 500
    /\ handlers[1].endpoint # handlers[2].endpoint


(* ------------------------------------------------------------------ *)
(* The form components                                                 *)
(* ------------------------------------------------------------------ *)

\* The responses the endpoint can give to the i-th POST in flight.
AnswersTo(i) == ServerAnswers(page, flights[i].body)

\* C22: every form state the client validator accepted and POSTed is
\* accepted by the validation of its endpoint: no POST in flight can be
\* answered 422.
C22_ClientAcceptedIsServerAccepted ==
    \A i \in 1..Len(flights) : \A res \in AnswersTo(i) : res.status # 422

\* C22, the part that holds: when the fetch of a POST has settled with a
\* 422, its errors map becomes the field errors of the form.
C22_ErrorsOf422Stored ==
    [][(Len(flights') < Len(flights) /\ settled'.status = 422)
        => (formErrors' = settled'.errors /\ HasErrors(formErrors') /\ status' = "idle")]_vars

\* C22: a POST whose fields passed the client validator is answered 422, for
\* each form.
C22_RejectedAfterClientAccepted ==
    /\ flights # <<>>
    /\ \E res \in AnswersTo(1) : res.status = 422 /\ HasErrors(res.errors)


\* A step that starts a POST.
StartsPost == Len(flights') > Len(flights)

C24_AtMostOneInFlight == Len(flights) <= 1

C24_NoSecondPost == [][StartsPost => flights = <<>>]_vars

\* C24: whatever the order of submit events, renders and settled fetches,
\* at most one POST of the form is in flight at a time, and no submit
\* starts a POST while one is in flight.
C24_OnePostAtATime == []C24_AtMostOneInFlight /\ C24_NoSecondPost

\* C24, for the Contact form, which has no reset while a POST is in flight.
C24_ContactOnePostAtATime == page = "contact" => Len(flights) <= 1

\* C24: two POSTs of the Careers form are in flight, the first started
\* before the form was reset and the second after.
C24_TwoPostsInFlight ==
    /\ page = "careers" /\ Len(flights) = 2
    /\ flights[1].beforeReset /\ ~flights[2].beforeReset

\* The step is the continuation of handleSubmit after a fetch has settled.
Settles == Len(flights') < Len(flights)

\* The status and the errors that an outcome of a fetch leads to.
OutcomeOf(res) ==
    IF res # NetworkError /\ res.ok THEN status' = "success"
    ELSE IF res # NetworkError /\ res.status = 422 /\ HasErrors(res.errors)
    THEN status' = "idle" /\ formErrors' = res.errors
    ELSE status' = "error" /\ formErrors' = ApiError

C25_StatusValues == status \in {"idle", "submitting", "success", "error"}

C25_SubmittingOnlyFromValidSubmit ==
    [][(status # "submitting" /\ status' = "submitting")
        => (FormVisible /\ ~HasErrors(validate) /\ StartsPost)]_vars

C25_OutcomeDecidesStatus ==
    [][(status = "submitting" /\ Settles)
        => /\ \E i \in 1..Len(flights) : settled' \in AnswersTo(i) \cup {NetworkError}
           /\ OutcomeOf(settled')]_vars

C25_SubmittingIsLeft == (status = "submitting") ~> (status # "submitting")

\* C25: the status is one of idle, submitting, success, error; it becomes
\* submitting only by a submit whose form passes the client validation;
\* every submitting state is left, and the fetch that settles in it leaves
\* it to success on an ok response, to idle with the errors of the server
\* on a 422 that carries errors, and to error with errors.api otherwise.
C25_StatusMachine ==
    /\ []C25_StatusValues
    /\ C25_SubmittingOnlyFromValidSubmit
    /\ C25_OutcomeDecidesStatus
    /\ C25_SubmittingIsLeft

\* C25: a submit that passed the client validation was answered 422 and the
\* form is idle again with the error of the server at the name field.
C25_Witness ==
    /\ status = "idle"
    /\ posts = 1 /\ flights = <<>>
    /\ settled.status = 422
    /\ formErrors = Put(NoErrors, "name", "Name must be at least 2 characters.")


\* The step is openJob or goBack: the selected job changes.
JobChanges == selectedJob' # selectedJob

\* C26: after openJob or goBack the fields are the empty form, there are no
\* validation errors, no file is selected, the file error is empty and the
\* status is idle, whatever they were before.
C26_ResetOnJobChange ==
    [][JobChanges => /\ formData' = EMPTY_FORM(page)
                     /\ formErrors' = NoErrors
                     /\ selectedFile' = NoFile
                     /\ fileError' = ""
                     /\ status' = "idle"]_vars

\* C26: goBack has reset a form that was filled, had a file and was
\* submitting: its POST is still in flight.
C26_Witness ==
    /\ page = "careers" /\ selectedJob = 0
    /\ flights # <<>> /\ flights[1].body.cv # NoFile
    /\ formData = EMPTY_FORM(page) /\ formErrors = NoErrors
    /\ selectedFile = NoFile /\ fileError = "" /\ status = "idle"


\* The step is a submit event of the Careers form with a value in the hidden
\* website input, handled by handleSubmit past its guard.
HoneypotSubmit ==
    /\ page = "careers" /\ ~InFlightGuard
    /\ \E website \in HoneypotValues : website # <<>> /\ handleSubmit(website)

C29_SuccessIsOfSelectedJob ==
    (page = "careers" /\ status = "success" /\ selectedJob # 0) => succeeded = selectedJob

\* The response to a POST started before goBack or openJob reset the form
\* changes neither the status nor the errors of the form.
C29_StaleResponseIgnored ==
    [][\A i \in 1..Len(flights) :
          (flights[i].beforeReset /\ flights' = RemoveAt(flights, i))
              => UNCHANGED <<status, formErrors>>]_vars

\* C29: whenever the status is success and a job is selected, a submission
\* for that job was answered ok or the honeypot fired for it; a response to
\* a request started before the form was reset never changes the status of
\* the form shown now.
C29_NoStaleOutcome == []C29_SuccessIsOfSelectedJob /\ C29_StaleResponseIgnored

\* C29: the form of one job shows success for the submission to another:
\* the POST was started for a job, the form was reset and another job opened.
C29_SuccessOfAnotherJob ==
    /\ page = "careers" /\ status = "success"
    /\ selectedJob # 0 /\ succeeded # selectedJob
    /\ settled.ok

=============================================================================
